---- MODULE Spec2Model ----
(***************************************************************************)
(* A model of the SPL compiler: the SLR(1) table generator and parse       *)
(* driver (parser.py), the recursive-descent tree builder (syntax_tree.py),*)
(* the symbol table (symbol_table.py), the type checker (type_checker.py), *)
(* the code generator (code_generator.py), the label resolver              *)
(* (basic_converter.py) and the pipeline that chains them (main.py).       *)
(***************************************************************************)
EXTENDS Integers, Sequences, FiniteSets, TLC

(***************************************************************************)
(* Generic helpers.                                                        *)
(***************************************************************************)
Range(s) == {s[i] : i \in DOMAIN s}

(***************************************************************************)
(* parser.py: the fixed SPL grammar.  A production is <<head, body>>; the  *)
(* list keeps the order of the dictionary in build_spl_grammar, with the   *)
(* body ["ε"] already normalised to the empty body as Grammar.__init__     *)
(* does.                                                                   *)
(***************************************************************************)
start_symbol == "S'"

productions ==
  << <<"S'", <<"SPL_PROG">> >>,
     <<"SPL_PROG", <<"glob", "{", "VARIABLES", "}", "proc", "{", "PROCDEFS", "}",
                     "func", "{", "FUNCDEFS", "}", "main", "{", "MAINPROG", "}">> >>,
     <<"VARIABLES", <<>> >>,
     <<"VARIABLES", <<"IDENT", "VARIABLES">> >>,
     <<"PROCDEFS", <<>> >>,
     <<"PROCDEFS", <<"PDEF", "PROCDEFS">> >>,
     <<"PDEF", <<"IDENT", "(", "PARAM", ")", "{", "BODY", "}">> >>,
     <<"FUNCDEFS", <<>> >>,
     <<"FUNCDEFS", <<"FDEF", "FUNCDEFS">> >>,
     <<"FDEF", <<"IDENT", "(", "PARAM", ")", "{", "BODY", ";", "return", "ATOM", "}">> >>,
     <<"PARAM", <<"MAXTHREE">> >>,
     <<"MAXTHREE", <<>> >>,
     <<"MAXTHREE", <<"IDENT">> >>,
     <<"MAXTHREE", <<"IDENT", "IDENT">> >>,
     <<"MAXTHREE", <<"IDENT", "IDENT", "IDENT">> >>,
     <<"BODY", <<"local", "{", "MAXTHREE", "}", "ALGO">> >>,
     <<"MAINPROG", <<"var", "{", "VARIABLES", "}", "ALGO">> >>,
     <<"ALGO", <<"INSTR">> >>,
     <<"ALGO", <<"INSTR", ";", "ALGO">> >>,
     <<"INSTR", <<"halt">> >>,
     <<"INSTR", <<"print", "OUTPUT">> >>,
     <<"INSTR", <<"ASSIGN">> >>,
     <<"INSTR", <<"IDENT", "(", "INPUT", ")">> >>,
     <<"INSTR", <<"LOOP">> >>,
     <<"INSTR", <<"BRANCH">> >>,
     <<"ASSIGN", <<"IDENT", "=", "IDENT", "(", "INPUT", ")">> >>,
     <<"ASSIGN", <<"IDENT", "=", "TERM">> >>,
     <<"INPUT", <<>> >>,
     <<"INPUT", <<"ATOM">> >>,
     <<"INPUT", <<"ATOM", "ATOM">> >>,
     <<"INPUT", <<"ATOM", "ATOM", "ATOM">> >>,
     <<"OUTPUT", <<"ATOM">> >>,
     <<"OUTPUT", <<"STRING">> >>,
     <<"ATOM", <<"IDENT">> >>,
     <<"ATOM", <<"NUMBER">> >>,
     <<"TERM", <<"ATOM">> >>,
     <<"TERM", <<"(", "UNOP", "TERM", ")">> >>,
     <<"TERM", <<"(", "TERM", "BINOP", "TERM", ")">> >>,
     <<"UNOP", <<"neg">> >>,
     <<"UNOP", <<"not">> >>,
     <<"BINOP", <<"eq">> >>,
     <<"BINOP", <<">">> >>,
     <<"BINOP", <<"or">> >>,
     <<"BINOP", <<"and">> >>,
     <<"BINOP", <<"plus">> >>,
     <<"BINOP", <<"minus">> >>,
     <<"BINOP", <<"mult">> >>,
     <<"BINOP", <<"div">> >>,
     <<"LOOP", <<"while", "TERM", "{", "ALGO", "}">> >>,
     <<"LOOP", <<"do", "{", "ALGO", "}", "until", "TERM">> >>,
     <<"BRANCH", <<"if", "TERM", "{", "ALGO", "}">> >>,
     <<"BRANCH", <<"if", "TERM", "{", "ALGO", "}", "else", "{", "ALGO", "}">> >> >>

ProdIdx == DOMAIN productions
HeadOf(p) == productions[p][1]
BodyOf(p) == productions[p][2]

\* Grammar.__init__: the heads of the productions.
nonterminals == {HeadOf(p) : p \in ProdIdx}

\* Grammar._find_terminals: every body symbol that is not a head.
terminals == UNION {Range(BodyOf(p)) : p \in ProdIdx} \ nonterminals

(***************************************************************************)
(* Items.  An item is <<p, dot>>: production p with the dot before         *)
(* position dot+1 of its body (Item.head, Item.body, Item.dot).            *)
(***************************************************************************)
next_symbol(item) ==
  IF item[2] < Len(BodyOf(item[1])) THEN BodyOf(item[1])[item[2] + 1] ELSE "None"

\* An is_complete that holds as soon as the dot has moved.
is_complete_dot_moved(item) == item[2] >= 1 \/ BodyOf(item[1]) = <<>>

is_complete(item) == item[2] = Len(BodyOf(item[1]))

\* closure: add [B -> .gamma] for every item with the dot before B, to fixpoint.
RECURSIVE closure(_)
closure(items) ==
  LET wanted == {next_symbol(it) : it \in items} \cap nonterminals
      new_items == {<<p, 0>> : p \in {q \in ProdIdx : HeadOf(q) \in wanted}}
  IN IF new_items \subseteq items THEN items ELSE closure(items \cup new_items)

\* goto: move the dot over symbol, then close; the empty set when nothing moves.
goto(items, symbol) ==
  LET moved == {<<it[1], it[2] + 1>> : it \in {i \in items : next_symbol(i) = symbol}}
  IN IF moved # {} THEN closure(moved) ELSE {}

(***************************************************************************)
(* canonical_collection.  The source iterates the set                      *)
(* grammar.terminals | grammar.nonterminals, whose order is unspecified;   *)
(* SymbolOrder fixes one order.  The order changes only the numbering of   *)
(* the states.                                                             *)
(***************************************************************************)
SymbolOrder ==
  <<"glob", "{", "}", "proc", "func", "main", "IDENT", "(", ")", ";", "return",
    "local", "var", "halt", "print", "=", "STRING", "NUMBER", "neg", "not",
    "eq", ">", "or", "and", "plus", "minus", "mult", "div", "while", "do",
    "until", "if", "else",
    "S'", "SPL_PROG", "VARIABLES", "PROCDEFS", "PDEF", "FUNCDEFS", "FDEF",
    "PARAM", "MAXTHREE", "BODY", "MAINPROG", "ALGO", "INSTR", "ASSIGN", "INPUT",
    "OUTPUT", "ATOM", "TERM", "UNOP", "BINOP", "LOOP", "BRANCH">>

IndexOf(seq, x) == CHOOSE i \in DOMAIN seq : seq[i] = x

start_state == closure({<<1, 0>>})

\* One sweep of the source's while loop: the goto sets of the states added by
\* the sweep before (sts[from..]), state by state and symbol by symbol; each
\* new set is appended once, in the order it is first met.
SweepCandidates(sts, from) ==
  LET n == Len(SymbolOrder)
  IN [k \in 1 .. ((Len(sts) - from + 1) * n) |->
        <<k, goto(sts[from + ((k - 1) \div n)], SymbolOrder[((k - 1) % n) + 1])>>]

SweepAdded(cand, seen) ==
  LET IsNew(e) == /\ e[2] # {}
                  /\ e[2] \notin seen
                  /\ \A j \in 1 .. (e[1] - 1) : cand[j][2] # e[2]
  IN SelectSeq(cand, IsNew)

RECURSIVE Collect(_, _)
CollectAppend(sts, added) ==
  IF added = <<>> THEN sts
  ELSE Collect(sts \o [k \in DOMAIN added |-> added[k][2]], Len(sts) + 1)

Collect(sts, from) == CollectAppend(sts, SweepAdded(SweepCandidates(sts, from), Range(sts)))

\* states[i + 1] is the item set the source calls state i.
states == Collect(<<start_state>>, 1)

StateIdx == 0 .. (Len(states) - 1)

\* transitions: (state index, symbol) -> state index, where goto is non-empty.
TransitionKeys ==
  {<<i, X>> \in StateIdx \X (terminals \cup nonterminals) : goto(states[i + 1], X) # {}}

transitions ==
  [k \in TransitionKeys |-> IndexOf(states, goto(states[k[1] + 1], k[2])) - 1]

(***************************************************************************)
(* compute_first and compute_follow: least fixpoints.  One round applies   *)
(* every production to the sets of the round before; the source updates    *)
(* in place, which reaches the same fixpoint.                              *)
(***************************************************************************)
EPS == "ε"
END == "$"

\* FIRST of a sequence of symbols, as the inner loops of both functions build it.
RECURSIVE FirstOfSeq(_, _)
FirstOfSeq(first, body) ==
  IF body = <<>> THEN {EPS}
  ELSE LET f == first[Head(body)]
       IN IF EPS \in f THEN (f \ {EPS}) \cup FirstOfSeq(first, Tail(body))
          ELSE f

RECURSIVE FirstFix(_)
FirstFix(first) ==
  LET nxt == [X \in terminals \cup nonterminals |->
                IF X \in terminals THEN first[X]
                ELSE first[X] \cup
                     UNION {FirstOfSeq(first, BodyOf(p)) : p \in {q \in ProdIdx : HeadOf(q) = X}}]
  IN IF nxt = first THEN first ELSE FirstFix(nxt)

compute_first ==
  FirstFix([X \in terminals \cup nonterminals |-> IF X \in terminals THEN {X} ELSE {}])

\* Occurrences <<p, i>> of nonterminal B in the bodies.
Occurrences(B) ==
  {<<p, i>> \in ProdIdx \X (1..16) : i <= Len(BodyOf(p)) /\ BodyOf(p)[i] = B}

RECURSIVE FollowFix(_, _)
FollowFix(first, follow) ==
  LET contrib(p, i) ==
        LET beta == SubSeq(BodyOf(p), i + 1, Len(BodyOf(p)))
            first_beta == FirstOfSeq(first, beta)
        IN (first_beta \ {EPS}) \cup (IF EPS \in first_beta THEN follow[HeadOf(p)] ELSE {})
      nxt == [B \in nonterminals |->
                follow[B] \cup UNION {contrib(o[1], o[2]) : o \in Occurrences(B)}]
  IN IF nxt = follow THEN follow ELSE FollowFix(first, nxt)

compute_follow ==
  FollowFix(compute_first, [B \in nonterminals |-> IF B = start_symbol THEN {END} ELSE {}])

(***************************************************************************)
(* build_parsing_table.  An ACTION entry is <<"shift", j>>,                *)
(* <<"reduce", p>> (p a production) or <<"accept", 0>>.  Shifts are        *)
(* entered first and a reduce never replaces a shift; among complete items *)
(* the last one visited wins, and the source visits a set in unspecified   *)
(* order, so ReduceCandidates keeps every candidate.                       *)
(***************************************************************************)
\* A table that enters accept for every complete item met under $, whatever
\* its head.
ReduceCandidatesEarlyAccept(i, a) ==
  {IF a = END THEN <<"accept", 0>> ELSE <<"reduce", it[1]>> :
     it \in {c \in states[i + 1] :
               is_complete(c) /\ IF HeadOf(c[1]) = start_symbol THEN a = END
                                 ELSE a \in compute_follow[HeadOf(c[1])]}}

ReduceCandidates(i, a) ==
  {IF HeadOf(it[1]) = start_symbol THEN <<"accept", 0>> ELSE <<"reduce", it[1]>> :
     it \in {c \in states[i + 1] :
               is_complete(c) /\ IF HeadOf(c[1]) = start_symbol THEN a = END
                                 ELSE a \in compute_follow[HeadOf(c[1])]}}

PreferShift(i, a) ==
  IF a \in terminals /\ <<i, a>> \in TransitionKeys
  THEN <<"shift", transitions[<<i, a>>]>>
  ELSE CHOOSE c \in ReduceCandidates(i, a) : TRUE

ActionKeys ==
  {<<i, a>> \in StateIdx \X (terminals \cup {END}) :
     (a \in terminals /\ <<i, a>> \in TransitionKeys) \/ ReduceCandidates(i, a) # {}}

action_table == [k \in ActionKeys |-> PreferShift(k[1], k[2])]

GotoKeys == {t \in TransitionKeys : t[2] \in nonterminals}

goto_table == [k \in GotoKeys |-> transitions[k]]

(***************************************************************************)
(* SLRParser.parse: one iteration of the loop.  A configuration is the     *)
(* state stack and the pointer (0-based, as in the source); the result is  *)
(* "run" while the loop runs, then "accept" (True) or "error" (False).     *)
(***************************************************************************)
Lookahead(toks, pointer) == IF pointer < Len(toks) THEN toks[pointer + 1] ELSE END

ActionAt(stack, toks, pointer) ==
  IF <<stack[Len(stack)], Lookahead(toks, pointer)>> \in ActionKeys
  THEN action_table[<<stack[Len(stack)], Lookahead(toks, pointer)>>]
  ELSE <<"none", 0>>

\* A reduce that pops one entry more than the body has symbols.
PoppedOneMore(stack, p) == SubSeq(stack, 1, Len(stack) - Len(BodyOf(p)) - 1)

\* The stack after "for _ in body: stack.pop()".
Popped(stack, p) == SubSeq(stack, 1, Len(stack) - Len(BodyOf(p)))

\* goto_table.get((state, head)) after the pops; None is the internal error.
GotoAfter(cfg, rest, head) ==
  IF <<rest[Len(rest)], head>> \in GotoKeys
  THEN [cfg EXCEPT !.stack = Append(rest, goto_table[<<rest[Len(rest)], head>>])]
  ELSE [cfg EXCEPT !.stack = rest, !.result = "error"]

\* The body of the loop once the action is looked up.
Iterate(cfg, act) ==
  CASE act[1] = "none" -> [cfg EXCEPT !.result = "error"]
    [] act[1] = "shift" ->
         [cfg EXCEPT !.stack = Append(cfg.stack, act[2]), !.pointer = cfg.pointer + 1]
    [] act[1] = "reduce" -> GotoAfter(cfg, Popped(cfg.stack, act[2]), HeadOf(act[2]))
    [] act[1] = "accept" -> [cfg EXCEPT !.result = "accept"]

ParseIter(cfg, toks) == Iterate(cfg, ActionAt(cfg.stack, toks, cfg.pointer))

RECURSIVE ParseRun(_, _)
ParseRun(cfg, toks) ==
  IF cfg.result # "run" THEN cfg.result = "accept" ELSE ParseRun(ParseIter(cfg, toks), toks)

\* SLRParser.parse(tokens): True when the loop ends in accept.
parse(toks) == ParseRun([stack |-> <<0>>, pointer |-> 0, result |-> "run"], toks)

(***************************************************************************)
(* main.py, convert_lexer_token_to_parser_string: a lexer token is         *)
(* [type, value]; the parser sees the kind name for IDENT, NUMBER and      *)
(* STRING and the lexeme for every other token.                            *)
(***************************************************************************)
convert_lexer_token_to_parser_string(token) ==
  IF token.type = "IDENT" THEN "IDENT"
  ELSE IF token.type = "NUMBER" THEN "NUMBER"
  ELSE IF token.type = "STRING" THEN "STRING"
  ELSE token.value

ParserTokens(tokens) ==
  [i \in DOMAIN tokens |-> convert_lexer_token_to_parser_string(tokens[i])]

(***************************************************************************)
(* syntax_tree.py.  A node is [id, type, value, children]; None is the     *)
(* string "None", which no lexeme equals (lexemes are lower case).         *)
(* ASTNode.__init__ takes the next value of the process-wide counter, so   *)
(* every builder function threads the counter: it takes the token list,    *)
(* the position (self.pos, 0-based) and the next id, and returns           *)
(* [ok, node, pos, nid]; ok = FALSE stands for a raised exception.         *)
(***************************************************************************)
NoneV == "None"

ASTNode(id, nodetype, value, children) ==
  [id |-> id, type |-> nodetype, value |-> value, children |-> children]

NoNode == ASTNode(-1, NoneV, NoneV, <<>>)

Raised(pos, nid) == [ok |-> FALSE, node |-> NoNode, pos |-> pos, nid |-> nid]
Built(node, pos, nid) == [ok |-> TRUE, node |-> node, pos |-> pos, nid |-> nid]

\* self.current_token.type, "None" past the end of the tokens.
CurType(toks, pos) == IF pos < Len(toks) THEN toks[pos + 1].type ELSE NoneV
CurValue(toks, pos) == IF pos < Len(toks) THEN toks[pos + 1].value ELSE NoneV

\* A run of expect() calls: the position after them, or -1 when one raises.
RECURSIVE ExpectAll(_, _, _)
ExpectAll(toks, pos, types) ==
  IF types = <<>> THEN pos
  ELSE IF CurType(toks, pos) = Head(types) THEN ExpectAll(toks, pos + 1, Tail(types))
  ELSE -1

\* parse_variables: the list node first, then one VAR per IDENT.
RECURSIVE VarDecls(_, _, _)
VarDecls(toks, pos, nid) ==
  IF CurType(toks, pos) = "IDENT"
  THEN <<ASTNode(nid, "VAR", CurValue(toks, pos), <<>>)>> \o VarDecls(toks, pos + 1, nid + 1)
  ELSE <<>>

parse_variables(toks, pos, nid, node_type) ==
  LET n == Len(VarDecls(toks, pos, nid + 1))
  IN Built(ASTNode(nid, node_type, NoneV, VarDecls(toks, pos, nid + 1)), pos + n, nid + 1 + n)

\* parse_procdefs / parse_funcdefs: an empty node; no token is consumed.
parse_procdefs(toks, pos, nid) == Built(ASTNode(nid, "PROCS", NoneV, <<>>), pos, nid + 1)
parse_funcdefs(toks, pos, nid) == Built(ASTNode(nid, "FUNCS", NoneV, <<>>), pos, nid + 1)

parse_atom(toks, pos, nid) ==
  IF CurType(toks, pos) = "IDENT"
  THEN Built(ASTNode(nid, "VAR", CurValue(toks, pos), <<>>), pos + 1, nid + 1)
  ELSE IF CurType(toks, pos) = "NUMBER"
  THEN Built(ASTNode(nid, "NUMBER", CurValue(toks, pos), <<>>), pos + 1, nid + 1)
  ELSE Raised(pos, nid)

BinopTypes == {"eq", "GT", "or", "and", "plus", "minus", "mult", "div"}

RECURSIVE parse_term(_, _, _)
\* After the operand of ( UNOP TERM ): expect ")" and build UNOP.
TermUnop(toks, op, r) ==
  IF ~r.ok THEN r
  ELSE IF CurType(toks, r.pos) = "RPAREN"
  THEN Built(ASTNode(r.nid, "UNOP", op, <<r.node>>), r.pos + 1, r.nid + 1)
  ELSE Raised(r.pos, r.nid)

\* After the right operand of ( TERM BINOP TERM ).
TermBinop(toks, op, l, r) ==
  IF ~r.ok THEN r
  ELSE IF CurType(toks, r.pos) = "RPAREN"
  THEN Built(ASTNode(r.nid, "BINOP", op, <<l.node, r.node>>), r.pos + 1, r.nid + 1)
  ELSE Raised(r.pos, r.nid)

\* After the left operand: an operator and a right operand, or just ")".
TermLeft(toks, l) ==
  IF ~l.ok THEN l
  ELSE IF CurType(toks, l.pos) \in BinopTypes
  THEN TermBinop(toks, CurValue(toks, l.pos), l, parse_term(toks, l.pos + 1, l.nid))
  ELSE IF CurType(toks, l.pos) = "RPAREN" THEN Built(l.node, l.pos + 1, l.nid)
  ELSE Raised(l.pos, l.nid)

parse_term(toks, pos, nid) ==
  IF CurType(toks, pos) = NoneV THEN Raised(pos, nid)
  ELSE IF CurType(toks, pos) = "LPAREN"
  THEN IF CurType(toks, pos + 1) = NoneV THEN Raised(pos + 1, nid)
       ELSE IF CurType(toks, pos + 1) \in {"neg", "not"}
       THEN TermUnop(toks, CurValue(toks, pos + 1), parse_term(toks, pos + 2, nid))
       ELSE TermLeft(toks, parse_term(toks, pos + 1, nid))
  ELSE parse_atom(toks, pos, nid)

\* parse_print: only STRING and IDENT are taken after print.
parse_print(toks, pos, nid) ==
  IF CurType(toks, pos + 1) = "STRING"
  THEN Built(ASTNode(nid + 1, "PRINT", NoneV,
                     <<ASTNode(nid, "STRING", CurValue(toks, pos + 1), <<>>)>>),
             pos + 2, nid + 2)
  ELSE IF CurType(toks, pos + 1) = "IDENT"
  THEN Built(ASTNode(nid + 1, "PRINT", NoneV,
                     <<ASTNode(nid, "VAR", CurValue(toks, pos + 1), <<>>)>>),
             pos + 2, nid + 2)
  ELSE Raised(pos + 1, nid)

\* parse_assignment: IDENT, expect "=", a term; VAR is built after the term.
AssignBuilt(var_name, t) ==
  IF ~t.ok THEN t
  ELSE Built(ASTNode(t.nid + 1, "ASSIGN", NoneV,
                     <<ASTNode(t.nid, "VAR", var_name, <<>>), t.node>>),
             t.pos, t.nid + 2)

parse_assignment(toks, pos, nid) ==
  IF CurType(toks, pos + 1) = "ASSIGN"
  THEN AssignBuilt(CurValue(toks, pos), parse_term(toks, pos + 2, nid))
  ELSE Raised(pos + 1, nid)

RECURSIVE parse_algo(_, _, _), parse_instr(_, _, _), AlgoRest(_, _, _, _)

\* parse_while_loop: while TERM { ALGO }.
WhileBody(toks, c, b) ==
  IF ~b.ok THEN b
  ELSE IF CurType(toks, b.pos) = "RBRACE"
  THEN Built(ASTNode(b.nid + 1, "LOOP", NoneV,
                     <<ASTNode(b.nid, "WHILE", NoneV, <<c.node, b.node>>)>>),
             b.pos + 1, b.nid + 2)
  ELSE Raised(b.pos, b.nid)

WhileCond(toks, c) ==
  IF ~c.ok THEN c
  ELSE IF CurType(toks, c.pos) = "LBRACE"
  THEN WhileBody(toks, c, parse_algo(toks, c.pos + 1, c.nid))
  ELSE Raised(c.pos, c.nid)

parse_while_loop(toks, pos, nid) == WhileCond(toks, parse_term(toks, pos + 1, nid))

\* parse_do_until_loop: do { ALGO } until TERM.
DoCond(toks, b, c) ==
  IF ~c.ok THEN c
  ELSE Built(ASTNode(c.nid + 1, "LOOP", NoneV,
                     <<ASTNode(c.nid, "DO", NoneV, <<b.node, c.node>>)>>),
             c.pos, c.nid + 2)

DoBody(toks, b) ==
  IF ~b.ok THEN b
  ELSE IF ExpectAll(toks, b.pos, <<"RBRACE", "until">>) = -1 THEN Raised(b.pos, b.nid)
  ELSE DoCond(toks, b, parse_term(toks, b.pos + 2, b.nid))

parse_do_until_loop(toks, pos, nid) ==
  IF CurType(toks, pos + 1) = "LBRACE" THEN DoBody(toks, parse_algo(toks, pos + 2, nid))
  ELSE Raised(pos + 1, nid)

\* parse_if_statement: if TERM { ALGO } [else { ALGO }].
IfElse(toks, c, t, e) ==
  IF ~e.ok THEN e
  ELSE IF CurType(toks, e.pos) = "RBRACE"
  THEN Built(ASTNode(e.nid + 1, "BRANCH", NoneV,
                     <<ASTNode(e.nid, "IF", NoneV, <<c.node, t.node, e.node>>)>>),
             e.pos + 1, e.nid + 2)
  ELSE Raised(e.pos, e.nid)

IfThen(toks, c, t) ==
  IF ~t.ok THEN t
  ELSE IF CurType(toks, t.pos) # "RBRACE" THEN Raised(t.pos, t.nid)
  ELSE IF CurType(toks, t.pos + 1) = "else"
  THEN IF CurType(toks, t.pos + 2) = "LBRACE"
       THEN IfElse(toks, c, t, parse_algo(toks, t.pos + 3, t.nid))
       ELSE Raised(t.pos + 2, t.nid)
  ELSE Built(ASTNode(t.nid + 1, "BRANCH", NoneV,
                     <<ASTNode(t.nid, "IF", NoneV, <<c.node, t.node>>)>>),
             t.pos + 1, t.nid + 2)

IfCond(toks, c) ==
  IF ~c.ok THEN c
  ELSE IF CurType(toks, c.pos) = "LBRACE"
  THEN IfThen(toks, c, parse_algo(toks, c.pos + 1, c.nid))
  ELSE Raised(c.pos, c.nid)

parse_if_statement(toks, pos, nid) == IfCond(toks, parse_term(toks, pos + 1, nid))

parse_instr(toks, pos, nid) ==
  LET token_type == CurType(toks, pos)
  IN CASE token_type = NoneV -> Raised(pos, nid)
       [] token_type = "halt" -> Built(ASTNode(nid, "HALT", NoneV, <<>>), pos + 1, nid + 1)
       [] token_type = "print" -> parse_print(toks, pos, nid)
       [] token_type = "IDENT" -> parse_assignment(toks, pos, nid)
       [] token_type = "while" -> parse_while_loop(toks, pos, nid)
       [] token_type = "do" -> parse_do_until_loop(toks, pos, nid)
       [] token_type = "if" -> parse_if_statement(toks, pos, nid)
       [] OTHER -> Raised(pos, nid)

\* The while loop of parse_algo: after each ";" one more instruction, unless
\* the next token is "}" or the tokens have ended.
AlgoNext(toks, algo_id, instrs, r) ==
  IF ~r.ok THEN r ELSE AlgoRest(toks, algo_id, Append(instrs, r.node), r)

AlgoRest(toks, algo_id, instrs, r) ==
  IF CurType(toks, r.pos) = "SEMI"
  THEN IF CurType(toks, r.pos + 1) \notin {NoneV, "RBRACE"}
       THEN AlgoNext(toks, algo_id, instrs, parse_instr(toks, r.pos + 1, r.nid))
       ELSE AlgoRest(toks, algo_id, instrs, [r EXCEPT !.pos = r.pos + 1])
  ELSE Built(ASTNode(algo_id, "ALGO", NoneV, instrs), r.pos, r.nid)

parse_algo(toks, pos, nid) == AlgoNext(toks, nid, <<>>, parse_instr(toks, pos, nid + 1))

\* parse_mainprog: MAIN is built first, then VARS, then ALGO.
MainAlgo(main_id, v, a) ==
  IF ~a.ok THEN a
  ELSE Built(ASTNode(main_id, "MAIN", NoneV, <<v.node, a.node>>), a.pos, a.nid)

MainVars(toks, main_id, v) ==
  IF CurType(toks, v.pos) = "RBRACE"
  THEN MainAlgo(main_id, v, parse_algo(toks, v.pos + 1, v.nid))
  ELSE Raised(v.pos, v.nid)

parse_mainprog(toks, pos, nid) ==
  IF ExpectAll(toks, pos, <<"var", "LBRACE">>) = -1 THEN Raised(pos, nid + 1)
  ELSE MainVars(toks, nid, parse_variables(toks, pos + 2, nid + 1, "VARS"))

\* parse_program, section by section; PROGRAM is built last.
ProgramMain(toks, g, p, f, m) ==
  IF ~m.ok THEN m
  ELSE IF CurType(toks, m.pos) = "RBRACE"
  THEN Built(ASTNode(m.nid, "PROGRAM", NoneV, <<g.node, p.node, f.node, m.node>>),
             m.pos + 1, m.nid + 1)
  ELSE Raised(m.pos, m.nid)

ProgramFuncs(toks, g, p, f) ==
  IF ExpectAll(toks, f.pos, <<"RBRACE", "main", "LBRACE">>) = -1 THEN Raised(f.pos, f.nid)
  ELSE ProgramMain(toks, g, p, f, parse_mainprog(toks, f.pos + 3, f.nid))

ProgramProcs(toks, g, p) ==
  IF ExpectAll(toks, p.pos, <<"RBRACE", "func", "LBRACE">>) = -1 THEN Raised(p.pos, p.nid)
  ELSE ProgramFuncs(toks, g, p, parse_funcdefs(toks, p.pos + 3, p.nid))

ProgramGlobals(toks, g) ==
  IF ExpectAll(toks, g.pos, <<"RBRACE", "proc", "LBRACE">>) = -1 THEN Raised(g.pos, g.nid)
  ELSE ProgramProcs(toks, g, parse_procdefs(toks, g.pos + 3, g.nid))

parse_program(toks, nid) ==
  IF ExpectAll(toks, 0, <<"glob", "LBRACE">>) = -1 THEN Raised(0, nid)
  ELSE ProgramGlobals(toks, parse_variables(toks, 2, nid, "GLOBALS"))

\* build_ast(tokens), with the id counter at nid when it is called.
build_ast(toks, nid) == parse_program(toks, nid)

(***************************************************************************)
(* symbol_table.py.  The scope objects live in a heap: tab.scopes[s] is    *)
(* scope s, [scope_name, parent, symbols, children], with parent 0 for     *)
(* None, symbols in insertion order and children a list of scope indices;  *)
(* tab.sid is the next value of SymbolTable._id_counter.  A node_id of -1  *)
(* stands for None.                                                        *)
(***************************************************************************)
Symbol(name, sym_type, scope, node_id) ==
  [name |-> name, type |-> sym_type, scope |-> scope, node_id |-> node_id]

NoSymbol == Symbol(NoneV, NoneV, NoneV, -1)

\* SymbolTable("everywhere"): a heap that holds the root scope only.
SymbolTable(scope_name, sid) ==
  [scopes |-> <<[scope_name |-> scope_name, parent |-> 0, symbols |-> <<>>,
                 children |-> <<>>]>>,
   sid |-> sid]

\* A variant that also finds the name in the parent scope.
DeclaredInParent(tab, s, name) ==
  \E t \in {s} \cup ({tab.scopes[s].parent} \ {0}) :
    \E i \in DOMAIN tab.scopes[t].symbols : tab.scopes[t].symbols[i].name = name

Declared(tab, s, name) == \E i \in DOMAIN tab.scopes[s].symbols : tab.scopes[s].symbols[i].name = name

\* "node_id or next(self._id_counter)": None and 0 are both falsy.
add(tab, s, name, sym_type, node_id) ==
  IF Declared(tab, s, name) THEN [ok |-> FALSE, tab |-> tab]
  ELSE IF node_id = -1 \/ node_id = 0
  THEN [ok |-> TRUE,
        tab |-> [scopes |-> [tab.scopes EXCEPT ![s].symbols =
                    Append(@, Symbol(name, sym_type, tab.scopes[s].scope_name, tab.sid))],
                 sid |-> tab.sid + 1]]
  ELSE [ok |-> TRUE,
        tab |-> [tab EXCEPT !.scopes[s].symbols =
                    Append(@, Symbol(name, sym_type, tab.scopes[s].scope_name, node_id))]]

RECURSIVE lookup(_, _, _)
lookup(tab, s, name) ==
  IF Declared(tab, s, name)
  THEN tab.scopes[s].symbols[CHOOSE i \in DOMAIN tab.scopes[s].symbols :
                               tab.scopes[s].symbols[i].name = name]
  ELSE IF tab.scopes[s].parent # 0 THEN lookup(tab, tab.scopes[s].parent, name)
  ELSE NoSymbol

\* create_child_scope: the child is the last scope of the heap.
create_child_scope(tab, s, name) ==
  [tab EXCEPT !.scopes =
     Append([@ EXCEPT ![s].children = Append(@, Len(tab.scopes) + 1)],
            [scope_name |-> name, parent |-> s, symbols |-> <<>>, children |-> <<>>])]

\* The loops of build_symbol_table: add every VAR of the list to scope s;
\* a repeated name raises out of the function.
RECURSIVE AddAll(_, _, _)
AddAllNext(r, s, vars) == IF ~r.ok THEN r ELSE AddAll(r.tab, s, vars)

AddAll(tab, s, vars) ==
  IF vars = <<>> THEN [ok |-> TRUE, tab |-> tab]
  ELSE AddAllNext(add(tab, s, Head(vars).value, "var", Head(vars).id), s, Tail(vars))

BuildMainScope(ast_root, r) ==
  IF ~r.ok THEN r
  ELSE AddAll(create_child_scope(r.tab, 1, "main"), Len(r.tab.scopes) + 1,
              ast_root.children[4].children[1].children)

\* build_symbol_table(ast_root): root, then "global", then "main", both
\* children of the root.  sid is the table's id counter at the call.
build_symbol_table(ast_root, sid) ==
  BuildMainScope(ast_root,
                 AddAll(create_child_scope(SymbolTable("everywhere", sid), 1, "global"), 2,
                        ast_root.children[1].children))

(***************************************************************************)
(* type_checker.py.  The checker's state is [tab, stack, errors]: the      *)
(* scope heap it was given, self.scopes as a list of scope indices and     *)
(* report.errors.  Every function returns the state it leaves; the typing  *)
(* functions return [t, tc], t the type or "None".                         *)
(***************************************************************************)
NUMERIC == "numeric"
BOOLEAN_T == "boolean"

\* Two history fields record what the scope stack went through: low is the
\* smallest length it had, visits the instructions checked, each with the
\* context of its ALGO and the scope on top of the stack at that moment.
TypeChecker(tab) ==
  [tab |-> tab, stack |-> <<1>>, errors |-> <<>>, low |-> 1, visits |-> <<>>]

ReportAdd(tc, msg) == [tc EXCEPT !.errors = Append(@, msg)]

Typed(t, tc) == [t |-> t, tc |-> tc]

\* self.scope: the top of the stack.
TopScope(tc) == tc.stack[Len(tc.stack)]

push_scope(tc, name) ==
  [tc EXCEPT !.tab = create_child_scope(tc.tab, TopScope(tc), name),
             !.stack = Append(@, Len(tc.tab.scopes) + 1)]

\* A pop_scope that leaves the stack as it is.
pop_scope_skipped(tc) == tc

pop_scope(tc) ==
  [tc EXCEPT !.stack = SubSeq(@, 1, Len(@) - 1),
             !.low = IF Len(tc.stack) - 1 < @ THEN Len(tc.stack) - 1 ELSE @]

\* The history entry of one check_instr call.
Visit(tc, ctx, i) ==
  [tc EXCEPT !.visits = Append(@, [algo |-> ctx, instr |-> i, scope |-> TopScope(tc),
                                   depth |-> Len(tc.stack)])]

_is_typeless(tc, name) == lookup(tc.tab, TopScope(tc), name) = NoSymbol

\* _declare_var: a failed add becomes an error of the report.
DeclareResult(tc, r, name, ctx) ==
  IF r.ok THEN [tc EXCEPT !.tab = r.tab]
  ELSE ReportAdd(tc, ctx \o ": [Name-Rule-Violation] '" \o name \o "' already declared in scope '"
                     \o tc.tab.scopes[TopScope(tc)].scope_name \o "'")

_declare_var(tc, name, ctx, node_id) ==
  DeclareResult(tc, add(tc.tab, TopScope(tc), name, "var", node_id), name, ctx)

\* _require_var: [ok, tc].
RequireResult(tc, sym, name, ctx) ==
  IF sym = NoSymbol
  THEN [ok |-> FALSE, tc |-> ReportAdd(tc, ctx \o ": undeclared variable '" \o name \o "'")]
  ELSE IF sym.type # "var"
  THEN [ok |-> FALSE,
        tc |-> ReportAdd(tc, ctx \o ": '" \o name \o "' is a " \o sym.type \o ", not a variable")]
  ELSE [ok |-> TRUE, tc |-> tc]

_require_var(tc, name, ctx) == RequireResult(tc, lookup(tc.tab, TopScope(tc), name), name, ctx)

IdText(node) == "id=" \o ToString(node.id)

RECURSIVE type_atom(_, _)
AtomVar(r) == Typed(IF r.ok THEN NUMERIC ELSE NoneV, r.tc)

type_atom(tc, node) ==
  CASE node.type = "VAR" -> AtomVar(_require_var(tc, node.value, "VAR(" \o IdText(node) \o ")"))
    [] node.type = "NUMBER" -> Typed(NUMERIC, tc)
    [] node.type \in {"BOOL", "TRUE", "FALSE"} -> Typed(BOOLEAN_T, tc)
    [] node.type = "OUTPUT_ATOM" -> type_atom(tc, node.children[1])
    [] OTHER -> Typed(NoneV, ReportAdd(tc, "Unknown ATOM node '" \o node.type \o "' at " \o IdText(node)))

RECURSIVE type_term(_, _)
UnopType(node, r) ==
  CASE node.value = "neg" ->
         IF r.t = NUMERIC THEN Typed(NUMERIC, r.tc)
         ELSE Typed(NoneV, ReportAdd(r.tc, "Unary 'neg' expects numeric (" \o IdText(node) \o ")"))
    [] node.value = "not" ->
         IF r.t = BOOLEAN_T THEN Typed(BOOLEAN_T, r.tc)
         ELSE Typed(NoneV, ReportAdd(r.tc, "Unary 'not' expects boolean (" \o IdText(node) \o ")"))
    [] OTHER ->
         Typed(NoneV, ReportAdd(r.tc, "Unknown UNOP '" \o node.value \o "' (" \o IdText(node) \o ")"))

BinopType(node, l, r) ==
  CASE node.value \in {"plus", "minus", "mult", "div"} ->
         IF l.t = NUMERIC /\ r.t = NUMERIC THEN Typed(NUMERIC, r.tc)
         ELSE Typed(NoneV, ReportAdd(r.tc, "Operator '" \o node.value
                                            \o "' requires numeric operands (" \o IdText(node) \o ")"))
    [] node.value \in {"and", "or"} ->
         IF l.t = BOOLEAN_T /\ r.t = BOOLEAN_T THEN Typed(BOOLEAN_T, r.tc)
         ELSE Typed(NoneV, ReportAdd(r.tc, "Operator '" \o node.value
                                            \o "' requires boolean operands (" \o IdText(node) \o ")"))
    [] node.value \in {">", "eq"} ->
         IF l.t = NUMERIC /\ r.t = NUMERIC THEN Typed(BOOLEAN_T, r.tc)
         ELSE Typed(NoneV, ReportAdd(r.tc, "Operator '" \o node.value
                                            \o "' requires numeric operands (" \o IdText(node) \o ")"))
    [] OTHER ->
         Typed(NoneV, ReportAdd(r.tc, "Unknown BINOP '" \o node.value \o "' (" \o IdText(node) \o ")"))

BinopLeft(node, l) == BinopType(node, l, type_term(l.tc, node.children[2]))

type_term(tc, node) ==
  CASE node.type \in {"VAR", "NUMBER", "BOOL", "TRUE", "FALSE", "OUTPUT_ATOM"} -> type_atom(tc, node)
    [] node.type = "UNOP" -> UnopType(node, type_term(tc, node.children[1]))
    [] node.type = "BINOP" -> BinopLeft(node, type_term(tc, node.children[1]))
    [] node.type = "TERM" /\ node.children # <<>> -> type_term(tc, node.children[1])
    [] OTHER -> Typed(NoneV, ReportAdd(tc, "Unknown TERM node '" \o node.type \o "' at " \o IdText(node)))

\* A test that lets every typed value pass, whatever its type.
UnlessUntyped(r, t, msg) == IF r.t = NoneV THEN ReportAdd(r.tc, msg) ELSE r.tc

\* "if <typing>(...) != T: report.add(msg)".
Unless(r, t, msg) == IF r.t # t THEN ReportAdd(r.tc, msg) ELSE r.tc

\* Statement order: x is computed, then F is applied to its value.
Then(x, F(_)) == CHOOSE r \in {F(v) : v \in {x}} : TRUE

RECURSIVE check_output(_, _, _)
check_output(tc, node, ctx) ==
  CASE node.type \in {"OUTPUT_STRING", "STRING"} -> tc
    [] node.type = "OUTPUT_ATOM" ->
         Unless(type_atom(tc, node.children[1]), NUMERIC, ctx \o ": output atom must be numeric")
    [] node.type \in {"VAR", "NUMBER"} ->
         Unless(type_atom(tc, node), NUMERIC, ctx \o ": output atom must be numeric")
    [] node.type = "PRINT" -> check_output(tc, node.children[1], ctx)
    [] OTHER -> ReportAdd(tc, ctx \o ": unknown OUTPUT node '" \o node.type \o "'")

\* check_input: at most three atoms, each numeric.
RECURSIVE InputAtoms(_, _, _)
InputAtoms(tc, atoms, ctx) ==
  IF atoms = <<>> THEN tc
  ELSE InputAtoms(Unless(type_atom(tc, Head(atoms)), NUMERIC, ctx \o ": input atoms must be numeric"),
                  Tail(atoms), ctx)

check_input(tc, node, ctx) ==
  InputAtoms(IF Len(node.children) > 3
             THEN ReportAdd(tc, ctx \o ": at most 3 input atoms allowed (got "
                                \o ToString(Len(node.children)) \o ")")
             ELSE tc,
             node.children, ctx)

\* The tail of ASSIGN_CALL and ASSIGN_EXPR: the target must be a declared
\* variable; _require_var is not called for a target that is not a VAR.
RequireTarget(tc, var_node, ctx) ==
  IF var_node.type # "VAR" THEN tc ELSE _require_var(tc, var_node.value, ctx \o "/target").tc

\* The typeless test of CALL and ASSIGN_CALL.
RequireTypeless(tc, name, ctx) ==
  IF ~_is_typeless(tc, name)
  THEN ReportAdd(tc, ctx \o ": procedure/function name '" \o name \o "' must be typeless")
  ELSE tc

RECURSIVE check_instr(_, _, _), check_algo(_, _, _), AlgoInstrs(_, _, _, _)

\* IF: the else clause, when present, is checked in a scope of its own.
IfElseClause(tc, node, ctx) ==
  IF Len(node.children) > 2
  THEN pop_scope(check_algo(push_scope(tc, "else"), node.children[3], ctx \o "/else"))
  ELSE tc

check_instr(tc, node, ctx) ==
  CASE node.type = "HALT" -> tc
    [] node.type = "PRINT" -> check_output(tc, node.children[1], ctx \o "/print")
    [] node.type = "CALL" ->
         IF node.children # <<>>
         THEN check_input(RequireTypeless(tc, node.value, ctx), node.children[1], ctx \o "/call-input")
         ELSE RequireTypeless(tc, node.value, ctx)
    [] node.type = "ASSIGN_CALL" ->
         RequireTarget(check_input(RequireTypeless(tc, node.value, ctx), node.children[2],
                                   ctx \o "/assign-call-input"),
                       node.children[1], ctx)
    [] node.type = "ASSIGN_EXPR" ->
         RequireTarget(Unless(type_term(tc, node.children[2]), NUMERIC,
                              ctx \o ": right-hand side of assignment must be numeric"),
                       node.children[1], ctx)
    [] node.type = "IF" ->
         Then(Unless(type_term(tc, node.children[1]), BOOLEAN_T,
                     ctx \o ": if condition must be boolean"),
              LAMBDA t :
                Then(pop_scope(check_algo(push_scope(t, "then"), node.children[2],
                                          ctx \o "/then")),
                     LAMBDA u : IfElseClause(u, node, ctx)))
    [] node.type = "WHILE" ->
         Then(Unless(type_term(tc, node.children[1]), BOOLEAN_T,
                     ctx \o ": while condition must be boolean"),
              LAMBDA t : pop_scope(check_algo(push_scope(t, "while"), node.children[2],
                                              ctx \o "/while-body")))
    [] node.type = "DO_UNTIL" ->
         Then(pop_scope(check_algo(push_scope(tc, "do"), node.children[1], ctx \o "/do-body")),
              LAMBDA t : Unless(type_term(t, node.children[2]), BOOLEAN_T,
                                ctx \o ": do-until condition must be boolean"))
    [] node.type = "RETURN" ->
         Unless(type_atom(tc, node.children[1]), NUMERIC,
                ctx \o ": function return atom must be numeric")
    [] OTHER -> ReportAdd(tc, ctx \o ": unknown instruction '" \o node.type \o "'")

\* A loop that ends at the first instruction that left an error.
AlgoInstrsUntilError(tc, instrs, i, ctx) ==
  IF i >= Len(instrs) \/ tc.errors # <<>> THEN tc
  ELSE Then(check_instr(Visit(tc, ctx, i), instrs[i + 1],
                       ctx \o "/instr[" \o ToString(i) \o "]"),
            LAMBDA t : AlgoInstrs(t, instrs, i + 1, ctx))

\* "for i, instr in enumerate(node.children)": instruction i is 0-based; the
\* check of one instruction is finished before the next one starts.
AlgoInstrs(tc, instrs, i, ctx) ==
  IF i >= Len(instrs) THEN tc
  ELSE Then(check_instr(Visit(tc, ctx, i), instrs[i + 1],
                       ctx \o "/instr[" \o ToString(i) \o "]"),
            LAMBDA t : AlgoInstrs(t, instrs, i + 1, ctx))

\* check_algo: the ALGO branch and the other branch do the same.
check_algo(tc, node, ctx) ==
  IF node.children = <<>>
  THEN ReportAdd(tc, ctx \o ": ALGO must contain at least one instruction")
  ELSE AlgoInstrs(tc, node.children, 0, ctx)

\* The declaration loops: seen is the set of names met so far.
RECURSIVE DeclLoop(_, _, _, _, _)
DeclLoop(tc, var_nodes, seen, ctx, dup_tail) ==
  IF var_nodes = <<>> THEN tc
  ELSE IF Head(var_nodes).type # "VAR"
  THEN DeclLoop(ReportAdd(tc, ctx \o ": expected VAR declaration node, got " \o Head(var_nodes).type),
                Tail(var_nodes), seen, ctx, dup_tail)
  ELSE Then(_declare_var(IF Head(var_nodes).value \in seen
                         THEN ReportAdd(tc, ctx \o ": duplicate variable '"
                                            \o Head(var_nodes).value \o dup_tail)
                         ELSE tc,
                         Head(var_nodes).value, ctx, Head(var_nodes).id),
            LAMBDA t : DeclLoop(t, Tail(var_nodes), seen \cup {Head(var_nodes).value}, ctx,
                                dup_tail))

\* A limit of two declarations instead of three.
check_maxtwo_vars(tc, var_nodes, ctx) ==
  DeclLoop(IF Len(var_nodes) >= 3
           THEN ReportAdd(tc, ctx \o ": at most 3 variables allowed (got "
                              \o ToString(Len(var_nodes)) \o ")")
           ELSE tc,
           var_nodes, {}, ctx, "' in declaration list")

check_maxthree_vars(tc, var_nodes, ctx) ==
  DeclLoop(IF Len(var_nodes) > 3
           THEN ReportAdd(tc, ctx \o ": at most 3 variables allowed (got "
                              \o ToString(Len(var_nodes)) \o ")")
           ELSE tc,
           var_nodes, {}, ctx, "' in declaration list")

check_variables_block(tc, var_nodes, ctx) == DeclLoop(tc, var_nodes, {}, ctx, "' in same block")

check_body(tc, body_node, ctx) ==
  IF body_node.type # "BODY" \/ Len(body_node.children) < 2
  THEN ReportAdd(tc, ctx \o ": malformed BODY")
  ELSE Then(check_maxthree_vars(push_scope(tc, "body"), body_node.children[1].children,
                                ctx \o "/locals"),
            LAMBDA t : pop_scope(check_algo(t, body_node.children[2], ctx \o "/algo")))

\* children[:-1] and children[:-2].
AllButLast(seq, k) == SubSeq(seq, 1, Len(seq) - k)

ProcNameChecked(tc, name, ctx, what) ==
  IF ~_is_typeless(tc, name)
  THEN ReportAdd(tc, ctx \o ": " \o what \o " name '" \o name \o "' must be typeless")
  ELSE tc

ProcScopes(tc, proc_node, ctx) ==
  Then(check_maxthree_vars(push_scope(tc, "proc " \o proc_node.value),
                           AllButLast(proc_node.children, 1), ctx \o "/params"),
       LAMBDA t : pop_scope(check_body(t, proc_node.children[Len(proc_node.children)],
                                       ctx \o "/body")))

check_proc(tc, proc_node, ctx) ==
  IF proc_node.children = <<>>
  THEN ReportAdd(ProcNameChecked(tc, proc_node.value, ctx, "procedure"),
                 ctx \o ": malformed PROC (missing children)")
  ELSE ProcScopes(ProcNameChecked(tc, proc_node.value, ctx, "procedure"), proc_node, ctx)

\* _check_func_return_presence; explicit is NoNode for None.
ReturnInstr(body_node) ==
  IF body_node.type = "BODY" /\ Len(body_node.children) >= 2
     /\ body_node.children[2].children # <<>>
  THEN body_node.children[2].children[Len(body_node.children[2].children)]
  ELSE NoNode

ReturnPresence(tc, body_node, explicit) ==
  IF ReturnInstr(body_node).type = "RETURN"
  THEN Unless(type_atom(tc, ReturnInstr(body_node).children[1]), NUMERIC,
              "func: function return atom must be numeric")
  ELSE IF explicit = NoNode
  THEN ReportAdd(tc, "func: missing return atom (neither explicit child nor RETURN instruction found)")
  ELSE tc

_check_func_return_presence(tc, body_node, explicit) ==
  ReturnPresence(IF explicit # NoNode
                 THEN Unless(type_atom(tc, explicit), NUMERIC,
                             "func: function return atom must be numeric")
                 ELSE tc,
                 body_node, explicit)

FuncScopes(tc, name, params, body, explicit, ctx) ==
  Then(check_maxthree_vars(push_scope(tc, "func " \o name), params, ctx \o "/params"),
       LAMBDA t : Then(check_body(t, body, ctx \o "/body"),
                       LAMBDA u : pop_scope(_check_func_return_presence(u, body, explicit))))

FuncParts(tc, func_node, ctx) ==
  IF Len(func_node.children) >= 2 /\ func_node.children[Len(func_node.children)].type # "BODY"
  THEN FuncScopes(tc, func_node.value, AllButLast(func_node.children, 2),
                  func_node.children[Len(func_node.children) - 1],
                  func_node.children[Len(func_node.children)], ctx)
  ELSE FuncScopes(tc, func_node.value, AllButLast(func_node.children, 1),
                  func_node.children[Len(func_node.children)], NoNode, ctx)

check_func(tc, func_node, ctx) ==
  IF func_node.children = <<>>
  THEN ReportAdd(ProcNameChecked(tc, func_node.value, ctx, "function"),
                 ctx \o ": malformed FUNC (missing children)")
  ELSE FuncParts(ProcNameChecked(tc, func_node.value, ctx, "function"), func_node, ctx)

check_main(tc, main_node, ctx) ==
  IF main_node.type # "MAIN" \/ Len(main_node.children) < 2
  THEN ReportAdd(tc, ctx \o ": malformed MAIN")
  ELSE Then(check_variables_block(push_scope(tc, "main"), main_node.children[1].children,
                                  ctx \o "/vars"),
            LAMBDA t : pop_scope(check_algo(t, main_node.children[2], ctx \o "/algo")))

\* The loops of check_program over PROCS and FUNCS; i is 0-based.
RECURSIVE ProcLoop(_, _, _), FuncLoop(_, _, _)
ProcLoop(tc, procs, i) ==
  IF i >= Len(procs) THEN tc
  ELSE Then(IF procs[i + 1].type # "PROC"
            THEN ReportAdd(tc, "proc[" \o ToString(i) \o "]: expected PROC node, got "
                               \o procs[i + 1].type)
            ELSE check_proc(tc, procs[i + 1], "proc[" \o ToString(i) \o "]"),
            LAMBDA t : ProcLoop(t, procs, i + 1))

FuncLoop(tc, funcs, i) ==
  IF i >= Len(funcs) THEN tc
  ELSE Then(IF funcs[i + 1].type # "FUNC"
            THEN ReportAdd(tc, "func[" \o ToString(i) \o "]: expected FUNC node, got "
                               \o funcs[i + 1].type)
            ELSE check_func(tc, funcs[i + 1], "func[" \o ToString(i) \o "]"),
            LAMBDA t : FuncLoop(t, funcs, i + 1))

\* check_program: the checker's state when it returns; .errors is the report.
check_program(tc, program_node) ==
  IF program_node.type # "PROGRAM" \/ Len(program_node.children) # 4
  THEN ReportAdd(tc, "PROGRAM: malformed (expected 4 children: GLOBALS, PROCS, FUNCS, MAIN)")
  ELSE Then(check_variables_block(push_scope(tc, "global"), program_node.children[1].children,
                                  "globals"),
            LAMBDA t :
              Then(ProcLoop(t, program_node.children[2].children, 0),
                   LAMBDA u :
                     Then(FuncLoop(u, program_node.children[3].children, 0),
                          LAMBDA w : pop_scope(check_main(w, program_node.children[4], "main")))))

(***************************************************************************)
(* code_generator.py.  A line of code is the sequence of its words (the    *)
(* text is the words joined by one space).  The generator holds the scope  *)
(* heap it was given and looks every name up from the root scope (scope 1),*)
(* the object the pipeline passes as symbol_table.  g is                   *)
(* [temp_counter, label_counter]; the translation functions return the     *)
(* code, the counters they leave and, for a term, the result operand.      *)
(***************************************************************************)
CodeGenerator == [temp_counter |-> 0, label_counter |-> 0]

\* new_temp / new_label: the name made after the increment.
TempName(k) == "t" \o ToString(k)

\* A label counter that is never incremented: every label is the first one.
LabelNameStuck(k) == "L" \o ToString(1)

LabelName(k) == "L" \o ToString(k)

TermCode(code, result, g) == [code |-> code, result |-> result, g |-> g]
InstrCode(code, g) == [code |-> code, g |-> g]

\* "<scope>_<name>" after a successful lookup, else the bare name.
InternalName(tab, name) ==
  IF lookup(tab, 1, name) # NoSymbol
  THEN lookup(tab, 1, name).scope \o "_" \o lookup(tab, 1, name).name
  ELSE name

_get_binop_symbol(op_name) ==
  CASE op_name = "plus" -> "+"
    [] op_name = "minus" -> "-"
    [] op_name = "mult" -> "*"
    [] op_name = "div" -> "/"
    [] op_name = "eq" -> "="
    [] op_name = "gt" -> ">"
    [] OTHER -> op_name

RECURSIVE _translate_term(_, _, _)
\* UNOP with children [op, operand]: one fresh temporary after the operand.
UnopCode(op_node, r) ==
  TermCode(r.code \o (CASE op_node.value = "neg" ->
                             << <<TempName(r.g.temp_counter + 1), "=", "-" \o r.result>> >>
                        [] op_node.value = "not" ->
                             << <<TempName(r.g.temp_counter + 1), "=", "!" \o r.result>> >>
                        [] OTHER -> <<>>),
           TempName(r.g.temp_counter + 1),
           [r.g EXCEPT !.temp_counter = @ + 1])

\* BINOP with children [left, op, right].
BinopCode(op_node, l, r) ==
  TermCode(l.code \o r.code
             \o << <<TempName(r.g.temp_counter + 1), "=", l.result,
                     _get_binop_symbol(op_node.value), r.result>> >>,
           TempName(r.g.temp_counter + 1),
           [r.g EXCEPT !.temp_counter = @ + 1])

BinopRight(tab, term_node, l) ==
  BinopCode(term_node.children[2], l, _translate_term(tab, l.g, term_node.children[3]))

_translate_term(tab, g, term_node) ==
  CASE term_node.type = "VAR" -> TermCode(<<>>, InternalName(tab, term_node.value), g)
    [] term_node.type = "NUMBER" -> TermCode(<<>>, term_node.value, g)
    [] term_node.type = "UNOP" /\ Len(term_node.children) >= 2 ->
         UnopCode(term_node.children[1], _translate_term(tab, g, term_node.children[2]))
    [] term_node.type = "BINOP" /\ Len(term_node.children) >= 3 ->
         BinopRight(tab, term_node, _translate_term(tab, g, term_node.children[1]))
    [] OTHER -> TermCode(<<>>, "0", g)

_translate_print(tab, g, print_node) ==
  IF print_node.children = <<>> THEN InstrCode(<<>>, g)
  ELSE CASE print_node.children[1].type = "STRING" ->
              InstrCode(<< <<"PRINT", "\"" \o print_node.children[1].value \o "\"">> >>, g)
         [] print_node.children[1].type = "NUMBER" ->
              InstrCode(<< <<"PRINT", print_node.children[1].value>> >>, g)
         [] print_node.children[1].type = "VAR" ->
              InstrCode(<< <<"PRINT", InternalName(tab, print_node.children[1].value)>> >>, g)
         [] OTHER -> InstrCode(<<>>, g)

AssignCode(tab, var_node, t) ==
  InstrCode(t.code \o << <<InternalName(tab, var_node.value), "=", t.result>> >>, t.g)

_translate_assign(tab, g, assign_node) ==
  IF Len(assign_node.children) >= 2
  THEN AssignCode(tab, assign_node.children[1], _translate_term(tab, g, assign_node.children[2]))
  ELSE InstrCode(<<>>, g)

_translate_call(tab, g, call_node) ==
  IF call_node.children # <<>>
  THEN InstrCode(<< <<"CALL", call_node.children[1].value>> >>, g)
  ELSE InstrCode(<<>>, g)

RECURSIVE _translate_algo(_, _, _), _translate_instr(_, _, _), AlgoCode(_, _, _, _)

\* An if-else that emits the then part before the else part.
BranchThenElse(label_true, label_exit, c, e, t) ==
  InstrCode(c.code \o << <<"IF", c.result, "=", "1", "THEN", label_true>> >>
              \o t.code \o << <<"GOTO", label_exit>>, <<"REM", label_true>> >>
              \o e.code \o << <<"REM", label_exit>> >>,
            t.g)

\* if-else: cond, IF, else part, GOTO exit, REM true, then part, REM exit.
BranchElseThen(label_true, label_exit, c, e, t) ==
  InstrCode(c.code \o << <<"IF", c.result, "=", "1", "THEN", label_true>> >>
              \o e.code \o << <<"GOTO", label_exit>>, <<"REM", label_true>> >>
              \o t.code \o << <<"REM", label_exit>> >>,
            t.g)

BranchElse(tab, if_node, label_true, label_exit, c, e) ==
  BranchElseThen(label_true, label_exit, c, e, _translate_algo(tab, e.g, if_node.children[2]))

\* if only: cond, IF, GOTO exit, REM true, then part, REM exit.
BranchThen(label_true, label_exit, c, t) ==
  InstrCode(c.code \o << <<"IF", c.result, "=", "1", "THEN", label_true>>,
                         <<"GOTO", label_exit>>, <<"REM", label_true>> >>
              \o t.code \o << <<"REM", label_exit>> >>,
            t.g)

BranchCond(tab, if_node, label_true, label_exit, c) ==
  IF Len(if_node.children) > 2
  THEN BranchElse(tab, if_node, label_true, label_exit, c,
                  _translate_algo(tab, c.g, if_node.children[3]))
  ELSE BranchThen(label_true, label_exit, c, _translate_algo(tab, c.g, if_node.children[2]))

\* _translate_branch: both labels are taken before the condition is translated.
_translate_branch(tab, g, branch_node) ==
  IF branch_node.children # <<>> /\ branch_node.children[1].type = "IF"
  THEN BranchCond(tab, branch_node.children[1],
                  LabelName(g.label_counter + 1), LabelName(g.label_counter + 2),
                  _translate_term(tab, [g EXCEPT !.label_counter = @ + 2],
                                  branch_node.children[1].children[1]))
  ELSE InstrCode(<<>>, g)

WhileCode(label_start, label_body, label_exit, c, b) ==
  InstrCode(<< <<"REM", label_start>> >> \o c.code
              \o << <<"IF", c.result, "=", "1", "THEN", label_body>>,
                    <<"GOTO", label_exit>>, <<"REM", label_body>> >>
              \o b.code \o << <<"GOTO", label_start>>, <<"REM", label_exit>> >>,
            b.g)

WhileCondCode(tab, while_node, label_start, label_body, label_exit, c) ==
  WhileCode(label_start, label_body, label_exit, c,
            _translate_algo(tab, c.g, while_node.children[2]))

DoCode(label_start, label_exit, b, c) ==
  InstrCode(<< <<"REM", label_start>> >> \o b.code \o c.code
              \o << <<"IF", c.result, "=", "1", "THEN", label_exit>>,
                    <<"GOTO", label_start>>, <<"REM", label_exit>> >>,
            c.g)

DoBodyCode(tab, do_node, label_start, label_exit, b) ==
  DoCode(label_start, label_exit, b, _translate_term(tab, b.g, do_node.children[2]))

_translate_loop(tab, g, loop_node) ==
  IF loop_node.children = <<>> THEN InstrCode(<<>>, g)
  ELSE CASE loop_node.children[1].type = "WHILE" ->
              WhileCondCode(tab, loop_node.children[1], LabelName(g.label_counter + 1),
                            LabelName(g.label_counter + 2), LabelName(g.label_counter + 3),
                            _translate_term(tab, [g EXCEPT !.label_counter = @ + 3],
                                            loop_node.children[1].children[1]))
         [] loop_node.children[1].type = "DO" ->
              DoBodyCode(tab, loop_node.children[1], LabelName(g.label_counter + 1),
                         LabelName(g.label_counter + 2),
                         _translate_algo(tab, [g EXCEPT !.label_counter = @ + 2],
                                         loop_node.children[1].children[1]))
         [] OTHER -> InstrCode(<<>>, g)

_translate_instr(tab, g, instr_node) ==
  CASE instr_node.type = "HALT" -> InstrCode(<< <<"STOP">> >>, g)
    [] instr_node.type = "PRINT" -> _translate_print(tab, g, instr_node)
    [] instr_node.type = "ASSIGN" -> _translate_assign(tab, g, instr_node)
    [] instr_node.type = "BRANCH" -> _translate_branch(tab, g, instr_node)
    [] instr_node.type = "LOOP" -> _translate_loop(tab, g, instr_node)
    [] instr_node.type = "CALL" -> _translate_call(tab, g, instr_node)
    [] OTHER -> InstrCode(<<>>, g)

\* The loop of _translate_algo over the children it translates.
AlgoCodeNext(tab, instrs, i, acc, r) ==
  AlgoCode(tab, instrs, i + 1, InstrCode(acc.code \o r.code, r.g))

AlgoCode(tab, instrs, i, acc) ==
  IF i > Len(instrs) THEN acc
  ELSE IF instrs[i].type \in {"ASSIGN", "PRINT", "HALT", "BRANCH", "LOOP", "CALL"}
  THEN AlgoCodeNext(tab, instrs, i, acc, _translate_instr(tab, acc.g, instrs[i]))
  ELSE AlgoCode(tab, instrs, i + 1, acc)

_translate_algo(tab, g, algo_node) == AlgoCode(tab, algo_node.children, 1, InstrCode(<<>>, g))

\* _translate_main: every ALGO child of MAIN, in order.
RECURSIVE MainCode(_, _, _, _)
MainCodeNext(tab, nodes, i, acc, r) ==
  MainCode(tab, nodes, i + 1, InstrCode(acc.code \o r.code, r.g))

MainCode(tab, nodes, i, acc) ==
  IF i > Len(nodes) THEN acc
  ELSE IF nodes[i].type = "ALGO"
  THEN MainCodeNext(tab, nodes, i, acc, _translate_algo(tab, acc.g, nodes[i]))
  ELSE MainCode(tab, nodes, i + 1, acc)

_translate_main(tab, g, main_node) == MainCode(tab, main_node.children, 1, InstrCode(<<>>, g))

\* _find_main_node: the 4th child of a node with four children or more,
\* else the first child of type MAIN, else None.
RECURSIVE FirstOfType(_, _)
FirstOfType(nodes, nodetype) ==
  IF nodes = <<>> THEN NoNode
  ELSE IF Head(nodes).type = nodetype THEN Head(nodes)
  ELSE FirstOfType(Tail(nodes), nodetype)

_find_main_node(program_node) ==
  IF Len(program_node.children) >= 4 THEN program_node.children[4]
  ELSE FirstOfType(program_node.children, "MAIN")

\* generate(ast_root): the lines of the main program, none without a main node.
generate(tab, ast_root) ==
  IF _find_main_node(ast_root) # NoNode
  THEN _translate_main(tab, CodeGenerator, _find_main_node(ast_root)).code
  ELSE <<>>

(***************************************************************************)
(* basic_converter.py.  numbered_lines is a list of <<number, line>>;      *)
(* line_map is the set of <<label, number>> pairs of the dictionary (a     *)
(* later REM line for the same label replaces the earlier entry).          *)
(***************************************************************************)
DefaultStep == 10

\* stripped.startswith("REM L"): the words are REM and one that begins with L.
IsLabelLine(line, labels) == Len(line) >= 2 /\ line[1] = "REM" /\ line[2] \in labels

\* The words that begin with L among those of the generator's code: the
\* label names, whose numbers never exceed the number of lines.
LabelWords(lines) == {LabelName(k) : k \in 0..Len(lines)}

\* A first pass that advances current_number before it records a label.
generate_line_numbers_late(lines, step) ==
  [numbered_lines |-> [i \in DOMAIN lines |-> <<i * step, lines[i]>>],
   line_map |-> {<<lines[i][2], (i + 1) * step>> : i \in
                   {j \in DOMAIN lines :
                      /\ IsLabelLine(lines[j], LabelWords(lines))
                      /\ \A k \in DOMAIN lines :
                           (k > j /\ IsLabelLine(lines[k], LabelWords(lines))) => lines[k][2] # lines[j][2]}}]

\* A first pass whose current_number starts at 0, not at step.
generate_line_numbers_from_zero(lines, step) ==
  [numbered_lines |-> [i \in DOMAIN lines |-> <<(i - 1) * step, lines[i]>>],
   line_map |-> {<<lines[i][2], (i - 1) * step>> : i \in
                   {j \in DOMAIN lines :
                      /\ IsLabelLine(lines[j], LabelWords(lines))
                      /\ \A k \in DOMAIN lines :
                           (k > j /\ IsLabelLine(lines[k], LabelWords(lines))) => lines[k][2] # lines[j][2]}}]

generate_line_numbers(lines, step) ==
  [numbered_lines |-> [i \in DOMAIN lines |-> <<i * step, lines[i]>>],
   line_map |-> {<<lines[i][2], i * step>> : i \in
                   {j \in DOMAIN lines :
                      /\ IsLabelLine(lines[j], LabelWords(lines))
                      /\ \A k \in DOMAIN lines :
                           (k > j /\ IsLabelLine(lines[k], LabelWords(lines))) => lines[k][2] # lines[j][2]}}]

InMap(line_map, word) == \E e \in line_map : e[1] = word
MapOf(line_map, word) == (CHOOSE e \in line_map : e[1] = word)[2]

\* The string lexemes of the programs; _read_string keeps the characters
\* between the quotes.
StringLexemes == {"\"hi\"", "\"GOTO\"", "\"THEN\""}

StringChars(lexeme) ==
  CASE lexeme = "\"hi\"" -> "hi"
    [] lexeme = "\"GOTO\"" -> "GOTO"
    [] lexeme = "\"THEN\"" -> "THEN"

\* "GOTO" in line / "THEN" in line: w is a part of the text of the line.
\* Of the words of the lines here, those whose text holds w are w itself
\* and the string literals with w between the quotes (names are lower
\* case, labels and temporaries a letter and digits).
WordHolds(word, w) == word = w \/ (word \in StringLexemes /\ StringChars(word) = w)

InLine(line, w) == \E i \in DOMAIN line : WordHolds(line[i], w)

ReplaceWords(line, line_map) ==
  [i \in DOMAIN line |-> IF InMap(line_map, line[i]) THEN ToString(MapOf(line_map, line[i]))
                         ELSE line[i]]

\* replace_labels: each output line is <<number text>> followed by the words.
replace_labels(numbered_lines, line_map) ==
  [i \in DOMAIN numbered_lines |->
     <<ToString(numbered_lines[i][1])>> \o
       (IF InLine(numbered_lines[i][2], "GOTO") \/ InLine(numbered_lines[i][2], "THEN")
        THEN ReplaceWords(numbered_lines[i][2], line_map)
        ELSE numbered_lines[i][2])]

(***************************************************************************)
(* lexer.py on a source text given as the list of its whitespace-separated *)
(* lexemes: punctuation, string, number, keyword and identifier lexemes    *)
(* become Token(type, value); line and column play no part in the later    *)
(* stages.  The lexemes are those of well-formed tokens.                   *)
(***************************************************************************)
KEYWORDS ==
  {"glob", "proc", "func", "main", "local", "var", "halt", "print", "do", "until", "while",
   "if", "else", "return", "neg", "not", "eq", "or", "and", "plus", "minus", "mult", "div"}

Token(type, value) == [type |-> type, value |-> value]

\* The number lexemes of the programs below.
NumberLexemes == {"0", "1", "2", "10"}

\* Lexer.__next__ on one lexeme.
NextToken(lexeme) ==
  CASE lexeme = "(" -> Token("LPAREN", "(")
    [] lexeme = ")" -> Token("RPAREN", ")")
    [] lexeme = "{" -> Token("LBRACE", "{")
    [] lexeme = "}" -> Token("RBRACE", "}")
    [] lexeme = ";" -> Token("SEMI", ";")
    [] lexeme = "=" -> Token("ASSIGN", "=")
    [] lexeme = ">" -> Token("GT", ">")
    [] lexeme \in StringLexemes -> Token("STRING", StringChars(lexeme))
    [] lexeme \in NumberLexemes -> Token("NUMBER", lexeme)
    [] lexeme \in KEYWORDS -> Token(lexeme, lexeme)
    [] OTHER -> Token("IDENT", lexeme)

\* list(Lexer(source)).
Lexer(source) == [i \in DOMAIN source |-> NextToken(source[i])]

(***************************************************************************)
(* lexer.py character by character.  A source text is the list of its      *)
(* characters, each a one-character string; the lexer object is            *)
(* [source, n, i, line, col].  A scanner returns [kind, token, error, lx]: *)
(* kind "token" for a returned token, "stop" for StopIteration and "error" *)
(* for a raised LexerError(message, line, col); lx is the object as the    *)
(* call leaves it.  The character classes are those of str.islower,        *)
(* str.isalpha and str.isdigit on the characters used here.                *)
(***************************************************************************)
LowerChars ==
  {"a", "b", "c", "d", "e", "f", "g", "h", "i", "j", "k", "l", "m", "n", "o", "p", "q", "r",
   "s", "t", "u", "v", "w", "x", "y", "z"}
UpperChars == {"A", "Z"}
DigitChars == {"0", "1", "2", "3", "4", "5", "6", "7", "8", "9"}
Whitespace == {" ", "\t", "\r", "\n"}

\* "".join(chars) and self.source[start:stop].
RECURSIVE Join(_)
Join(chars) == IF chars = <<>> THEN "" ELSE Head(chars) \o Join(Tail(chars))

\* Lexer.__init__
LexerObject(text) == [source |-> text, n |-> Len(text), i |-> 0, line |-> 1, col |-> 1]

_peek(lx) == IF lx.i < lx.n THEN lx.source[lx.i + 1] ELSE ""

_advance(lx) ==
  IF _peek(lx) = "" THEN lx
  ELSE IF _peek(lx) = "\n" THEN [lx EXCEPT !.i = @ + 1, !.line = @ + 1, !.col = 1]
  ELSE [lx EXCEPT !.i = @ + 1, !.col = @ + 1]

_make(ttype, value, line, col) == [type |-> ttype, value |-> value, line |-> line, col |-> col]

NoToken == _make(NoneV, NoneV, 0, 0)
NoError == [message |-> NoneV, line |-> 0, col |-> 0]

Returned(token, lx) == [kind |-> "token", token |-> token, error |-> NoError, lx |-> lx]
LexerError(message, line, col, lx) ==
  [kind |-> "error", token |-> NoToken,
   error |-> [message |-> message, line |-> line, col |-> col], lx |-> lx]
StopIteration(lx) == [kind |-> "stop", token |-> NoToken, error |-> NoError, lx |-> lx]

RECURSIVE _skip_whitespace(_)
_skip_whitespace(lx) ==
  IF lx.i < lx.n /\ _peek(lx) \in Whitespace THEN _skip_whitespace(_advance(lx)) ELSE lx

\* "if len(chars) > 15"
MaxStringLength == 15

\* A string literal of any length.
RECURSIVE ReadStringLoopUnlimited(_, _, _, _)
ReadStringLoopUnlimited(lx, chars, start_line, start_col) ==
  IF _peek(lx) = "" THEN LexerError("Unterminated string literal", start_line, start_col, lx)
  ELSE IF _peek(lx) = "\""
  THEN Returned(_make("STRING", Join(chars), start_line, start_col), _advance(lx))
  ELSE IF _peek(lx) = "\n"
  THEN LexerError("String literal cannot span lines", lx.line, lx.col, lx)
  ELSE IF _peek(lx) \notin LowerChars \cup UpperChars \cup DigitChars
  THEN LexerError("Strings may contain only letters or digits", lx.line, lx.col, lx)
  ELSE ReadStringLoopUnlimited(_advance(lx), Append(chars, _peek(lx)), start_line, start_col)

\* The while loop of _read_string, chars the characters read so far.
RECURSIVE ReadStringLoop(_, _, _, _)
ReadStringLoop(lx, chars, start_line, start_col) ==
  IF _peek(lx) = "" THEN LexerError("Unterminated string literal", start_line, start_col, lx)
  ELSE IF _peek(lx) = "\""
  THEN IF Len(chars) > MaxStringLength
       THEN LexerError("String literal exceeds max length 15", start_line, start_col,
                       _advance(lx))
       ELSE Returned(_make("STRING", Join(chars), start_line, start_col), _advance(lx))
  ELSE IF _peek(lx) = "\n"
  THEN LexerError("String literal cannot span lines", lx.line, lx.col, lx)
  ELSE IF _peek(lx) \notin LowerChars \cup UpperChars \cup DigitChars
  THEN LexerError("Strings may contain only letters or digits", lx.line, lx.col, lx)
  ELSE ReadStringLoop(_advance(lx), Append(chars, _peek(lx)), start_line, start_col)

\* The position of an unterminated literal taken past the end of the text.
_read_string_past_end(lx) == ReadStringLoop(_advance(lx), <<>>, lx.line, lx.col + lx.n)

_read_string(lx) == ReadStringLoop(_advance(lx), <<>>, lx.line, lx.col)

\* An identifier that stops at the first digit.
RECURSIVE IdentLoopLetters(_)
IdentLoopLetters(lx) ==
  IF lx.i < lx.n /\ _peek(lx) \in LowerChars THEN IdentLoopLetters(_advance(lx)) ELSE lx

\* The while loop of _read_ident_or_keyword.
RECURSIVE IdentLoop(_)
IdentLoop(lx) ==
  IF lx.i < lx.n /\ _peek(lx) \in LowerChars \cup DigitChars THEN IdentLoop(_advance(lx))
  ELSE lx

IdentOrKeyword(lexeme, line, col, lx) ==
  IF lexeme \in KEYWORDS THEN Returned(_make(lexeme, lexeme, line, col), lx)
  ELSE Returned(_make("IDENT", lexeme, line, col), lx)

IdentEnd(start, end) ==
  IdentOrKeyword(Join(SubSeq(end.source, start.i + 1, end.i)), start.line, start.col, end)

_read_ident_or_keyword(lx) == IdentEnd(lx, IdentLoop(_advance(lx)))

\* The while loop of _read_number.
RECURSIVE DigitLoop(_)
DigitLoop(lx) ==
  IF lx.i < lx.n /\ _peek(lx) \in DigitChars THEN DigitLoop(_advance(lx)) ELSE lx

NumberEnd(start, end) ==
  Returned(_make("NUMBER", Join(SubSeq(end.source, start.i + 1, end.i)), start.line,
                 start.col), end)

\* A number that may start with 0.
LeadingZeroAllowed(start, end) == NumberEnd(start, DigitLoop(end))

LeadingZero(start, end) ==
  IF end.i < end.n /\ _peek(end) \in DigitChars
  THEN LexerError("Numbers cannot have leading zeros", start.line, start.col, end)
  ELSE NumberEnd(start, end)

_read_number(lx) ==
  IF _peek(lx) = "0" THEN LeadingZero(lx, _advance(lx))
  ELSE IF _peek(lx) \notin DigitChars \/ _peek(lx) = "0"
  THEN LexerError("Invalid number start", lx.line, lx.col, lx)
  ELSE NumberEnd(lx, DigitLoop(lx))

Punctuation(ch) ==
  CASE ch = "(" -> "LPAREN" [] ch = ")" -> "RPAREN" [] ch = "{" -> "LBRACE"
    [] ch = "}" -> "RBRACE" [] ch = ";" -> "SEMI" [] ch = "=" -> "ASSIGN" [] ch = ">" -> "GT"
    [] OTHER -> NoneV

\* __next__ after _skip_whitespace.
NextAt(lx) ==
  IF lx.i >= lx.n THEN StopIteration(lx)
  ELSE IF Punctuation(_peek(lx)) # NoneV
  THEN Returned(_make(Punctuation(_peek(lx)), _peek(lx), lx.line, lx.col), _advance(lx))
  ELSE IF _peek(lx) = "\"" THEN _read_string(lx)
  ELSE IF _peek(lx) \in DigitChars THEN _read_number(lx)
  ELSE IF _peek(lx) \in LowerChars THEN _read_ident_or_keyword(lx)
  ELSE LexerError("Unexpected character '" \o _peek(lx) \o "'", lx.line, lx.col, lx)

__next__(lx) == NextAt(_skip_whitespace(lx))

(***************************************************************************)
(* The source programs of the model, generated by following the            *)
(* productions of build_spl_grammar: every sequence built here is derivable*)
(* from SPL_PROG by construction.  The bounds limit the depth of terms,    *)
(* the nesting of loops and branches and the length of instruction lists.  *)
(***************************************************************************)
MaxTermDepth == 1
MaxNesting == 2
MaxInstrs == 2

\* ATOM -> IDENT | NUMBER
Atoms == {<<"x">>, <<"1">>}

\* TERM -> ATOM | ( UNOP TERM ) | ( TERM BINOP TERM )
RECURSIVE Terms(_)
Terms(d) ==
  IF d = 0 THEN Atoms
  ELSE Terms(d - 1)
         \cup {<<"(", op>> \o t \o <<")">> : op \in {"neg", "not"}, t \in Terms(d - 1)}
         \cup {<<"(">> \o l \o <<op, "1", ")">> :
                 op \in {"plus", "and", ">", "eq"}, l \in Terms(d - 1)}

\* INSTR without a nested ALGO: halt, print OUTPUT, a bare call, a call
\* assignment, ASSIGN -> IDENT = TERM.
SimpleInstrs ==
  {<<"halt">>, <<"print", "x">>, <<"print", "1">>, <<"print", "\"hi\"">>,
   <<"print", "\"GOTO\"">>, <<"print", "\"THEN\"">>,
   <<"f", "(", ")">>, <<"f", "(", "x", "1", ")">>, <<"x", "=", "f", "(", "1", ")">>,
   <<"x", "=", "10">>, <<"y", "=", "1">>, <<"x", "=", "(", "1", "and", "2", ")">>}
    \cup {<<"x", "=">> \o t : t \in Terms(MaxTermDepth)}

Conditions == {<<"x">>, <<"(", "x", ">", "1", ")">>}

\* LOOP and BRANCH around the bodies a and the else part b.
Compound(cond, a, b) ==
  {<<"while">> \o cond \o <<"{">> \o a \o <<"}">>,
   <<"do", "{">> \o a \o <<"}", "until">> \o cond,
   <<"if">> \o cond \o <<"{">> \o a \o <<"}">>,
   <<"if">> \o cond \o <<"{">> \o a \o <<"}", "else", "{">> \o b \o <<"}">>}

RECURSIVE Nested(_)
\* The instructions nested exactly d deep, and the bodies they are built on.
NestedBodies(d) ==
  IF d = 0 THEN {<<"halt">>, <<"x", "=", "1">>}
  ELSE UNION {Compound(<<"(", "x", ">", "1", ")">>, a, a) : a \in Nested(d - 1)}

\* Deeper than two, a loop around each instruction one level less deep.
Nested(d) ==
  IF d = 0 THEN NestedBodies(0)
  ELSE IF d <= 2
       THEN UNION {Compound(c, a, <<"halt">>) : c \in Conditions, a \in NestedBodies(d - 1)}
       ELSE {<<"while", "x", "{">> \o a \o <<"}">> : a \in Nested(d - 1)}

\* ALGO -> INSTR ; ALGO, up to n instructions of a short list.
RECURSIVE InstrLists(_)
InstrLists(n) ==
  IF n = 1 THEN {<<"halt">>, <<"x", "=", "10">>, <<"while", "x", "{", "halt", "}">>}
  ELSE InstrLists(n - 1)
         \cup {i \o <<";">> \o a : i \in InstrLists(1), a \in InstrLists(n - 1)}

Algos ==
  SimpleInstrs \cup UNION {Nested(d) : d \in 1..MaxNesting} \cup InstrLists(MaxInstrs)

\* SPL_PROG -> glob { VARIABLES } proc { PROCDEFS } func { FUNCDEFS }
\*             main { var { VARIABLES } ALGO }
Program(globals, procdefs, funcdefs, mainvars, algo) ==
  <<"glob", "{">> \o globals \o <<"}", "proc", "{">> \o procdefs \o <<"}", "func", "{">>
    \o funcdefs \o <<"}", "main", "{", "var", "{">> \o mainvars \o <<"}">> \o algo \o <<"}">>

\* PDEF -> IDENT ( PARAM ) { BODY } and FDEF -> IDENT ( PARAM ) { BODY ; return ATOM },
\* with BODY -> local { MAXTHREE } ALGO.
PDef == <<"p", "(", "x", ")", "{", "local", "{", "y", "}", "halt", "}">>
FDef == <<"f", "(", "x", ")", "{", "local", "{", "}", "x", "=", "1", ";", "return", "x", "}">>

Declarations == {<<<<>>, <<>>>>, <<<<"x">>, <<>>>>, <<<<>>, <<"x">>>>, <<<<"x">>, <<"x">>>>}

\* The programs without definitions, over every declaration pattern of x.
PlainPrograms == {Program(d[1], <<>>, <<>>, d[2], a) : d \in Declarations, a \in Algos}

\* Programs with procedure and function definitions, and with repeated or
\* several declarations.
DefPrograms ==
  {Program(<<"x">>, p, f, <<"y">>, <<"halt">>) :
     p \in {<<>>, PDef, PDef \o PDef}, f \in {<<>>, FDef, FDef \o FDef}}
    \cup {Program(<<"x", "x">>, <<>>, <<>>, <<>>, <<"halt">>),
          Program(<<"x", "y">>, <<>>, <<>>, <<"y", "y">>, <<"halt">>),
          Program(<<"x", "y">>, <<>>, <<>>, <<"y", "p">>, <<"p", "=", "(", "1", "and", "2", ")">>)}

Derivable == PlainPrograms \cup DefPrograms

\* Sequences outside the language: the smallest program with one lexeme
\* removed, programs cut short, and a program followed by more lexemes.
Smallest == Program(<<>>, <<>>, <<>>, <<>>, <<"halt">>)

Underivable ==
  {SubSeq(Smallest, 1, i - 1) \o SubSeq(Smallest, i + 1, Len(Smallest)) : i \in DOMAIN Smallest}
    \cup {Program(<<>>, <<>>, <<>>, <<>>, <<"halt", ";">>),
          Program(<<>>, <<>>, <<>>, <<>>, <<"x", "=">>),
          Smallest \o <<"glob">>, Smallest \o Smallest}

Sources == Derivable \cup Underivable

(***************************************************************************)
(* main.py, compile_spl_from_file: one run of the pipeline on one source.  *)
(* pc is the step the run is at; a run ends "done", "returned" (the parse  *)
(* failed and the function returned) or "raised" (a stage raised and the   *)
(* exception left the function).  The two files are [written, lines].      *)
(***************************************************************************)
VARIABLES source, tokens, pc, accepted, ast, ast_counter, symbol_table, report,
          intermediate_file, label_map, basic_file, cfg, reductions, lexer, call, previous,
          checker

vars == <<source, tokens, pc, accepted, ast, ast_counter, symbol_table, report,
          intermediate_file, label_map, basic_file, cfg, reductions, lexer, call, previous,
          checker>>

NoFile == [written |-> FALSE, lines |-> <<>>]
File(lines) == [written |-> TRUE, lines |-> lines]

StartConfig == [stack |-> <<0>>, pointer |-> 0, result |-> "run"]

\* The lexer of a run that lexes text, no token asked for yet.
LexerRun(text) ==
  [lx |-> LexerObject(text), before |-> LexerObject(text), tokens |-> <<>>, result |-> "run",
   error |-> NoError]

\* No call made on the symbol table yet.
NoCall ==
  [op |-> NoneV, scope |-> 0, name |-> NoneV, raised |-> FALSE, before |-> <<>>, node_id |-> -1,
   sid |-> 0]

\* No TypeChecker made yet; else its scope stack and history when
\* check_program returned.
NoChecker == [stack |-> <<>>, low |-> 0, visits |-> <<>>]

CheckerLeft(tc) == [stack |-> tc.stack, low |-> tc.low, visits |-> tc.visits]

\* The process at its start: every counter at its first value, nothing
\* compiled before; lex is the character-level lexer it holds.
InitAll(src, at, lex) ==
  /\ source = src
  /\ tokens = Lexer(src)
  /\ pc = at
  /\ accepted = FALSE
  /\ ast = NoNode
  /\ ast_counter = 0
  /\ symbol_table = SymbolTable("everywhere", 0)
  /\ report = <<>>
  /\ intermediate_file = NoFile
  /\ label_map = {}
  /\ basic_file = NoFile
  /\ cfg = StartConfig
  /\ reductions = <<>>
  /\ lexer = lex
  /\ call = NoCall
  /\ previous = <<>>
  /\ checker = NoChecker

InitOn(src, at) == InitAll(src, at, LexerRun(<<>>))

Init == \E src \in Sources : InitOn(src, "parse")

\* Step 2: parser.parse(parser_tokens); "if result == False: return".
Parse ==
  /\ pc = "parse"
  /\ accepted' = parse(ParserTokens(tokens))
  /\ pc' = IF accepted' THEN "build_ast" ELSE "returned"
  /\ UNCHANGED <<source, tokens, ast, ast_counter, symbol_table, report, intermediate_file,
                 label_map, basic_file, cfg, reductions, lexer, call, previous, checker>>

\* Step 3: ast = build_ast(tokens), not guarded by a try.
BuildAstResult(r) ==
  /\ ast' = r.node
  /\ ast_counter' = r.nid
  /\ pc' = IF r.ok THEN "build_symbol_table" ELSE "raised"

BuildAst ==
  /\ pc = "build_ast"
  /\ BuildAstResult(build_ast(tokens, ast_counter))
  /\ UNCHANGED <<source, tokens, accepted, symbol_table, report, intermediate_file,
                 label_map, basic_file, cfg, reductions, lexer, call, previous, checker>>

\* Step 4: symbol_table = build_symbol_table(ast).
BuildSymbolTableResult(r) ==
  /\ symbol_table' = r.tab
  /\ pc' = IF r.ok THEN "type_check" ELSE "raised"

BuildSymbolTable ==
  /\ pc = "build_symbol_table"
  /\ BuildSymbolTableResult(build_symbol_table(ast, symbol_table.sid))
  /\ UNCHANGED <<source, tokens, accepted, ast, ast_counter, report, intermediate_file,
                 label_map, basic_file, cfg, reductions, lexer, call, previous, checker>>

\* Step 5: report = TypeChecker(symbol_table).check_program(ast); the report
\* is printed and the function goes on to step 6 whatever it holds.  The
\* checker pushes its scopes into the table object it was given.
TypeCheckResult(tc) ==
  /\ report' = tc.errors
  /\ symbol_table' = tc.tab
  /\ checker' = CheckerLeft(tc)
  /\ pc' = "generate_code"

TypeCheck ==
  /\ pc = "type_check"
  /\ TypeCheckResult(check_program(TypeChecker(symbol_table), ast))
  /\ UNCHANGED <<source, tokens, accepted, ast, ast_counter, intermediate_file, label_map,
                 basic_file, cfg, reductions, lexer, call, previous>>

\* Step 6: generate_code_from_ast(ast, symbol_table, "intermediate_output.txt").
generate_code_from_ast(ast_root, tab) == File(generate(tab, ast_root))

GenerateCode ==
  /\ pc = "generate_code"
  /\ intermediate_file' = generate_code_from_ast(ast, symbol_table)
  /\ pc' = "convert"
  /\ UNCHANGED <<source, tokens, accepted, ast, ast_counter, symbol_table, report, label_map,
                 basic_file, cfg, reductions, lexer, call, previous, checker>>

\* Step 7: convert_intermediate_to_basic(intermediate_file, output_bas).
convert_intermediate_to_basic(lines, step) ==
  [label_map |-> generate_line_numbers(lines, step).line_map,
   final_lines |-> replace_labels(generate_line_numbers(lines, step).numbered_lines,
                                  generate_line_numbers(lines, step).line_map)]

ConvertResult(r) ==
  /\ label_map' = r.label_map
  /\ basic_file' = File(r.final_lines)
  /\ pc' = "done"

ConvertToBasic ==
  /\ pc = "convert"
  /\ ConvertResult(convert_intermediate_to_basic(intermediate_file.lines, DefaultStep))
  /\ UNCHANGED <<source, tokens, accepted, ast, ast_counter, symbol_table, report,
                 intermediate_file, cfg, reductions, lexer, call, previous, checker>>

Next == Parse \/ BuildAst \/ BuildSymbolTable \/ TypeCheck \/ GenerateCode \/ ConvertToBasic

Spec == Init /\ [][Next]_vars

(***************************************************************************)
(* SLRParser.parse taken one loop iteration at a time, on derivable and on *)
(* underivable sequences.  cfg is the loop's state; reductions is a        *)
(* history variable, the productions of the reduce steps in order (the     *)
(* list the source keeps commented out as self.reductions).                *)
(***************************************************************************)
Rich ==
  Program(<<"x">>, PDef, <<>>, <<"y">>,
          <<"x", "=", "(", "(", "neg", "x", ")", "plus", "1", ")", ";",
            "if", "x", "{", "halt", "}", "else", "{", "print", "\"hi\"", "}">>)

ParseSources ==
  {Rich} \cup DefPrograms \cup Underivable
    \cup {Program(<<"x">>, <<>>, <<>>, <<"x">>, a) : a \in Algos}
    \cup {SubSeq(Rich, 1, i - 1) \o SubSeq(Rich, i + 1, Len(Rich)) : i \in DOMAIN Rich}

InitParse == \E src \in ParseSources : InitOn(src, "parsing")

ParseFrame ==
  UNCHANGED <<source, tokens, pc, accepted, ast, ast_counter, symbol_table, report,
              intermediate_file, label_map, basic_file, lexer, call, previous, checker>>

\* One iteration whose action is of the given kind; a reduce is recorded.
Step(kind, act) ==
  /\ act[1] = kind
  /\ cfg' = Iterate(cfg, act)
  /\ reductions' = IF kind = "reduce" THEN Append(reductions, act[2]) ELSE reductions
  /\ ParseFrame

\* kind == "shift"
Shift ==
  /\ pc = "parsing" /\ cfg.result = "run"
  /\ Step("shift", ActionAt(cfg.stack, ParserTokens(tokens), cfg.pointer))

\* kind == "reduce"
Reduce ==
  /\ pc = "parsing" /\ cfg.result = "run"
  /\ Step("reduce", ActionAt(cfg.stack, ParserTokens(tokens), cfg.pointer))

\* kind == "accept": return True
Accept ==
  /\ pc = "parsing" /\ cfg.result = "run"
  /\ Step("accept", ActionAt(cfg.stack, ParserTokens(tokens), cfg.pointer))

\* "if not action": return False
SyntaxError ==
  /\ pc = "parsing" /\ cfg.result = "run"
  /\ Step("none", ActionAt(cfg.stack, ParserTokens(tokens), cfg.pointer))

NextParse == Shift \/ Reduce \/ Accept \/ SyntaxError

SpecParse == InitParse /\ [][NextParse]_vars

(***************************************************************************)
(* list(Lexer(text)) taken one __next__ call at a time, on texts over a    *)
(* small alphabet, on identifier and keyword lexemes, on digit runs and on *)
(* string literals around the length limit.  lexer is [lx, before, tokens, *)
(* result, error]: the lexer object, the object as it was before the last  *)
(* call, the tokens returned so far, and "run", "stop" (StopIteration      *)
(* ended the iteration) or "error" (a LexerError left it).                 *)
(***************************************************************************)
MaxSourceLen == 4

SmallChars == {"a", "0", "1", "\"", " ", "\n", "#"}

RECURSIVE Texts(_)
Texts(n) ==
  IF n = 0 THEN {<<>>}
  ELSE Texts(n - 1) \cup {Append(t, c) : t \in {u \in Texts(n - 1) : Len(u) = n - 1},
                                        c \in SmallChars}

\* The keywords, spelled out character by character.
KeywordChars ==
  {<<"g", "l", "o", "b">>, <<"p", "r", "o", "c">>, <<"f", "u", "n", "c">>,
   <<"m", "a", "i", "n">>, <<"l", "o", "c", "a", "l">>, <<"v", "a", "r">>,
   <<"h", "a", "l", "t">>, <<"p", "r", "i", "n", "t">>, <<"d", "o">>,
   <<"u", "n", "t", "i", "l">>, <<"w", "h", "i", "l", "e">>, <<"i", "f">>,
   <<"e", "l", "s", "e">>, <<"r", "e", "t", "u", "r", "n">>, <<"n", "e", "g">>,
   <<"n", "o", "t">>, <<"e", "q">>, <<"o", "r">>, <<"a", "n", "d">>,
   <<"p", "l", "u", "s">>, <<"m", "i", "n", "u", "s">>, <<"m", "u", "l", "t">>,
   <<"d", "i", "v">>}

\* Every keyword, every keyword with one more character, every keyword cut
\* short by one, two keywords run together, and plain names.
Words ==
  KeywordChars
    \cup {Append(k, c) : k \in KeywordChars, c \in {"x", "9", "s"}}
    \cup {SubSeq(k, 1, Len(k) - 1) : k \in KeywordChars}
    \cup {<<"n", "o", "t", "e", "q">>, <<"i", "f", "i", "f">>, <<"x">>, <<"x", "1">>,
          <<"z", "0", "z">>}

\* Runs of digits, alone and followed by something else.
DigitRuns ==
  {t \o rest : t \in {<<a>> : a \in {"0", "1", "9"}}
                       \cup {<<a, b>> : a, b \in {"0", "1", "9"}}
                       \cup {<<a, b, c>> : a, b, c \in {"0", "1", "9"}},
               rest \in {<<>>, <<" ", "0">>, <<"a">>, <<";">>}}

Fill(k, c) == [i \in 1..k |-> c]

\* String literals of 0 to MaxStringLength + 2 inner characters, closed and
\* not closed, and literals with one inner character that is not allowed.
StringTexts ==
  {<<"\"">> \o Fill(k, c) \o close :
     k \in 0..(MaxStringLength + 2), c \in {"a", "Z", "7"},
     close \in {<<"\"">>, <<>>, <<"\"", "a">>, <<"\n", "\"">>}}
    \cup {<<"\"">> \o Fill(k, "a") \o <<bad>> \o Fill(j, "a") \o <<"\"">> :
            k \in {0, 1, MaxStringLength - 1}, j \in {0, 1},
            bad \in {"#", " ", "\n", "_", ";", "\t"}}

LexSources == Texts(MaxSourceLen) \cup Words \cup DigitRuns \cup StringTexts

InitLex == \E text \in LexSources : InitAll(<<>>, "lexing", LexerRun(text))

LexFrame ==
  UNCHANGED <<source, tokens, pc, accepted, ast, ast_counter, symbol_table, report,
              intermediate_file, label_map, basic_file, cfg, reductions, call, previous,
              checker>>

\* One __next__ call whose outcome is of the given kind.
LexStep(kind, r) ==
  /\ r.kind = kind
  /\ lexer' = [lx |-> r.lx,
               before |-> lexer.lx,
               tokens |-> IF kind = "token" THEN Append(lexer.tokens, r.token)
                          ELSE lexer.tokens,
               result |-> IF kind = "token" THEN "run" ELSE kind,
               error |-> r.error]
  /\ LexFrame

\* __next__ returns a token.
EmitToken ==
  /\ pc = "lexing" /\ lexer.result = "run"
  /\ LexStep("token", __next__(lexer.lx))

\* __next__ raises StopIteration.
EndOfInput ==
  /\ pc = "lexing" /\ lexer.result = "run"
  /\ LexStep("stop", __next__(lexer.lx))

\* __next__ raises LexerError.
RaiseLexerError ==
  /\ pc = "lexing" /\ lexer.result = "run"
  /\ LexStep("error", __next__(lexer.lx))

NextLex == EmitToken \/ EndOfInput \/ RaiseLexerError

SpecLex == InitLex /\ [][NextLex]_vars

(***************************************************************************)
(* symbol_table.py used directly: any sequence of add and                  *)
(* create_child_scope calls on the scopes of one tree, starting from       *)
(* SymbolTable("everywhere").  call is the last call made: its operation,  *)
(* the scope it was made on, the name, whether it raised, and the symbols  *)
(* of that scope before the call.                                          *)
(***************************************************************************)
MaxScopes == 3
MaxAutoIds == 1

ScopeVarNames == {"x", "y"}

\* node_id: None while the counter is low, then the id of a declaring node.
NodeIds(tab) == IF tab.sid < MaxAutoIds THEN {-1} ELSE {7}

InitScopes == InitAll(<<>>, "scopes", LexerRun(<<>>))

ScopesFrame ==
  UNCHANGED <<source, tokens, pc, accepted, ast, ast_counter, report, intermediate_file,
              label_map, basic_file, cfg, reductions, lexer, previous, checker>>

\* scope.add(name, "var", node_id) with the given outcome.
AddCall(s, name, node_id, raised, r) ==
  /\ r.ok = ~raised
  /\ symbol_table' = r.tab
  /\ call' = [op |-> "add", scope |-> s, name |-> name, raised |-> raised,
              before |-> symbol_table.scopes[s].symbols, node_id |-> node_id,
              sid |-> symbol_table.sid]
  /\ ScopesFrame

\* add returns.
Add ==
  /\ pc = "scopes"
  /\ \E s \in DOMAIN symbol_table.scopes, name \in ScopeVarNames, id \in NodeIds(symbol_table) :
       AddCall(s, name, id, FALSE, add(symbol_table, s, name, "var", id))

\* add raises the name-rule violation.
AddRaises ==
  /\ pc = "scopes"
  /\ \E s \in DOMAIN symbol_table.scopes, name \in ScopeVarNames, id \in NodeIds(symbol_table) :
       AddCall(s, name, id, TRUE, add(symbol_table, s, name, "var", id))

\* scope.create_child_scope("inner")
CreateChildScope ==
  /\ pc = "scopes"
  /\ Len(symbol_table.scopes) < MaxScopes
  /\ \E s \in DOMAIN symbol_table.scopes :
       /\ symbol_table' = create_child_scope(symbol_table, s, "inner")
       /\ call' = [op |-> "create_child_scope", scope |-> s, name |-> "inner",
                   raised |-> FALSE, before |-> symbol_table.scopes[s].symbols,
                   node_id |-> -1, sid |-> symbol_table.sid]
  /\ ScopesFrame

NextScopes == Add \/ AddRaises \/ CreateChildScope

SpecScopes == InitScopes /\ [][NextScopes]_vars

(***************************************************************************)
(* compile_spl_from_file called a second time in the same process on the   *)
(* same source.  ASTNode._id_counter and SymbolTable._id_counter are class *)
(* attributes, created when the modules are imported: the second call      *)
(* finds them where the first call left them.  The generator and its two   *)
(* counters are created anew by generate_code_from_ast, and the two files  *)
(* stay on disk until they are written again.  previous holds what the     *)
(* first call produced.                                                    *)
(***************************************************************************)
Compiled ==
  [ast |-> ast, scopes |-> symbol_table.scopes, report |-> report,
   intermediate_file |-> intermediate_file, basic_file |-> basic_file]

CompileAgain ==
  /\ pc = "done"
  /\ previous = <<>>
  /\ previous' = <<Compiled>>
  /\ tokens' = Lexer(source)
  /\ pc' = "parse"
  /\ accepted' = FALSE
  /\ ast' = NoNode
  /\ symbol_table' = SymbolTable("everywhere", symbol_table.sid)
  /\ report' = <<>>
  /\ label_map' = {}
  /\ UNCHANGED <<source, ast_counter, intermediate_file, basic_file, cfg, reductions, lexer,
                 call, checker>>

NextTwice == Next \/ CompileAgain

SpecTwice == Init /\ [][NextTwice]_vars

(***************************************************************************)
(* Trees built by hand, as test_type_checker.py builds them: nested        *)
(* constructor calls N(type, value, children), VarDeclNode(name) and       *)
(* ProgramNode(globals, procs, funcs, main), handed to                     *)
(* TypeChecker(SymbolTable("everywhere")).check_program.  Python evaluates *)
(* the arguments of a call before the call, so in a nested constructor     *)
(* expression the children take their ids before their parent, left to     *)
(* right.  An expression is [type, value, children] with no id; for the    *)
(* four subclasses type is the class name.                                 *)
(***************************************************************************)
MaxCondDepth == 1
MaxCheckInstrs == 2
MaxDecls == 4

Expr(nodetype, value, children) == [type |-> nodetype, value |-> value, children |-> children]

\* The subclasses: each passes its type and children to ASTNode.__init__.
ProgramNode(id, globals_node, procs_node, funcs_node, main_node) ==
  ASTNode(id, "PROGRAM", NoneV, <<globals_node, procs_node, funcs_node, main_node>>)

VarDeclNode(id, name) == ASTNode(id, "VAR", name, <<>>)

FuncNode(id, name, params, body) == ASTNode(id, "FUNC", name, params \o <<body>>)

ProcNode(id, name, params, body) == ASTNode(id, "PROC", name, params \o <<body>>)

\* A constructor that hands out the id of the first argument it was given.
NewNodeReusingId(e, args) ==
  [node |-> ASTNode(IF args.nodes = <<>> THEN args.nid ELSE args.nodes[1].id,
                    e.type, e.value, args.nodes),
   nid |-> args.nid + 1]

\* The constructor call itself, its arguments evaluated: the node takes
\* next(ASTNode._id_counter).
NewNode(e, args) ==
  [node |-> CASE e.type = "ProgramNode" ->
                   ProgramNode(args.nid, args.nodes[1], args.nodes[2], args.nodes[3], args.nodes[4])
              [] e.type = "VarDeclNode" -> VarDeclNode(args.nid, e.value)
              [] e.type = "FuncNode" ->
                   FuncNode(args.nid, e.value, SubSeq(args.nodes, 1, Len(args.nodes) - 1),
                            args.nodes[Len(args.nodes)])
              [] e.type = "ProcNode" ->
                   ProcNode(args.nid, e.value, SubSeq(args.nodes, 1, Len(args.nodes) - 1),
                            args.nodes[Len(args.nodes)])
              [] OTHER -> ASTNode(args.nid, e.type, e.value, args.nodes),
   nid |-> args.nid + 1]

\* The builders of test_type_checker.py are given nodes that are already
\* built and make their own nodes afterwards.  An expression whose type is
\* the name of a builder stands for a call of it; its children are laid out
\* as the children of the node the builder returns.
\* The number of constructor calls in an expression: none for a variable
\* that names a node built before; mk_prog makes a HALT of its own for an
\* empty list of instructions.
RECURSIVE NodeCount(_), NodeCountAll(_)
NodeCount(e) ==
  IF e.type = "ref" THEN 0
  ELSE 1 + NodeCountAll(e.children)
         + (IF e.type = "mk_prog" /\ e.children[4].children[2].children = <<>> THEN 1 ELSE 0)

NodeCountAll(es) == IF es = <<>> THEN 0 ELSE NodeCount(Head(es)) + NodeCountAll(Tail(es))

\* N(t, val, children) with the children built and the counter at nid.
N(t, val, children, nid) == NewNode(Expr(t, val, <<>>), [nodes |-> children, nid |-> nid])

\* body = N("BODY", children=[N("LOCALS_BLOCK", children=locals_nodes),
\*                            N("ALGO", children=algo_instrs)])
BuilderBody(locals_nodes, algo_instrs, nid) ==
  N("BODY", NoneV,
    <<N("LOCALS_BLOCK", NoneV, locals_nodes, nid).node,
      N("ALGO", NoneV, algo_instrs, nid + 1).node>>,
    nid + 2)

\* Evaluating a constructor expression with the counter at nid: argument k
\* is evaluated after the arguments before it, when the counter has
\* advanced by one for each of their calls, and the call itself after all
\* its arguments.  The result is [node, nid], nid the counter afterwards.
RECURSIVE Construct(_, _)
ConstructAll(es, nid) ==
  [nodes |-> [k \in DOMAIN es |->
                Construct(es[k], nid + NodeCountAll(SubSeq(es, 1, k - 1))).node],
   nid |-> nid + NodeCountAll(es)]

Arguments(e, nid) == ConstructAll(e.children, nid).nodes

\* A call of func_with_params_and_body or proc_with_params_and_body: the
\* caller builds the parameters, the locals, the instructions and the
\* explicit return atom; the builder then makes LOCALS_BLOCK, ALGO, BODY and
\* the FUNC or PROC node.
ConstructRoutine(e, nodetype, nid) ==
  LET n == Len(e.children)
      b == IF e.children[n].type = "BODY" THEN n ELSE n - 1
      params_nodes == ConstructAll(SubSeq(e.children, 1, b - 1), nid)
      locals_nodes == ConstructAll(e.children[b].children[1].children, params_nodes.nid)
      algo_instrs == ConstructAll(e.children[b].children[2].children, locals_nodes.nid)
      explicit_return_atom == ConstructAll(SubSeq(e.children, b + 1, n), algo_instrs.nid)
      body == BuilderBody(locals_nodes.nodes, algo_instrs.nodes, explicit_return_atom.nid)
  IN  N(nodetype, e.value, params_nodes.nodes \o <<body.node>> \o explicit_return_atom.nodes,
        body.nid)

\* A call of mk_prog: the caller builds the procedures, the functions and
\* the instructions; mk_prog then makes the global declarations, GLOBALS,
\* PROCS, FUNCS, the declarations of main, VARS_BLOCK, a HALT for an empty
\* list of instructions, ALGO, MAIN and the ProgramNode.
ConstructProgram(e, nid) ==
  LET procs == ConstructAll(e.children[2].children, nid)
      funcs == ConstructAll(e.children[3].children, procs.nid)
      main_instrs == ConstructAll(e.children[4].children[2].children, funcs.nid)
      glob_vars == ConstructAll(e.children[1].children, main_instrs.nid)
      globals_node == N("GLOBALS", NoneV, glob_vars.nodes, glob_vars.nid)
      procs_node == N("PROCS", NoneV, procs.nodes, globals_node.nid)
      funcs_node == N("FUNCS", NoneV, funcs.nodes, procs_node.nid)
      main_vars == ConstructAll(e.children[4].children[1].children, funcs_node.nid)
      vars_block == N("VARS_BLOCK", NoneV, main_vars.nodes, main_vars.nid)
      halt == IF main_instrs.nodes = <<>>
                THEN ConstructAll(<<Expr("HALT", NoneV, <<>>)>>, vars_block.nid)
                ELSE [nodes |-> main_instrs.nodes, nid |-> vars_block.nid]
      algo == N("ALGO", NoneV, halt.nodes, halt.nid)
      main == N("MAIN", NoneV, <<vars_block.node, algo.node>>, algo.nid)
  IN  NewNode(Expr("ProgramNode", NoneV, <<>>),
              [nodes |-> <<globals_node.node, procs_node.node, funcs_node.node, main.node>>,
               nid |-> main.nid])

Construct(e, nid) ==
  CASE e.type = "mk_prog" -> ConstructProgram(e, nid)
    [] e.type = "func_with_params_and_body" -> ConstructRoutine(e, "FUNC", nid)
    [] e.type = "proc_with_params_and_body" -> ConstructRoutine(e, "PROC", nid)
    [] OTHER -> NewNode(e, [nodes |-> Arguments(e, nid), nid |-> nid + NodeCountAll(e.children)])

\* The terms: NUMBER, a declared and an undeclared VAR, and operators over them.
HandAtoms == {Expr("NUMBER", "1", <<>>), Expr("VAR", "x", <<>>), Expr("VAR", "z", <<>>)}

HandUnops == {"neg", "not"}

HandBinops == {"plus", "and", "eq", ">"}

\* The right operand of a nested operator is an atom or the left operand again.
OperatorsOver(S) ==
  {Expr("UNOP", op, <<t>>) : op \in HandUnops, t \in S}
    \cup UNION {{Expr("BINOP", op, <<l, r>>) : op \in HandBinops, r \in HandAtoms \cup {l}} :
                 l \in S}

RECURSIVE HandTerms(_)
HandTerms(d) == IF d = 0 THEN HandAtoms ELSE HandTerms(d - 1) \cup OperatorsOver(HandTerms(d - 1))

HandAlgo(instrs) == Expr("ALGO", NoneV, instrs)

HandHalt == Expr("HALT", NoneV, <<>>)

HandAssignments(terms) ==
  {Expr("ASSIGN_EXPR", NoneV, <<Expr("VAR", v, <<>>), t>>) : v \in {"x", "z"}, t \in terms}

HandBranches(conds, bodies) ==
  {Expr("IF", NoneV, <<c, b>>) : c \in conds, b \in bodies}
    \cup {Expr("IF", NoneV, <<c, b, b>>) : c \in conds, b \in bodies}
    \cup {Expr("WHILE", NoneV, <<c, b>>) : c \in conds, b \in bodies}
    \cup {Expr("DO_UNTIL", NoneV, <<b, c>>) : c \in conds, b \in bodies}

\* The instructions that lists of several instructions are made of: good
\* and bad assignments, good and bad conditions, and instructions nested in
\* a branch or loop body.
FewTerms == {Expr("NUMBER", "1", <<>>),
             Expr("BINOP", "and", <<Expr("NUMBER", "1", <<>>), Expr("NUMBER", "1", <<>>)>>)}

FewConds == {Expr("NUMBER", "1", <<>>),
             Expr("BINOP", "eq", <<Expr("VAR", "x", <<>>), Expr("NUMBER", "1", <<>>)>>)}

\* Conditions made of comparisons.
HandCompare(op) == Expr("BINOP", op, <<Expr("VAR", "x", <<>>), Expr("NUMBER", "1", <<>>)>>)

DeepConds ==
  {Expr("UNOP", "not", <<HandCompare("eq")>>),
   Expr("UNOP", "not", <<Expr("UNOP", "not", <<HandCompare(">")>>)>>),
   Expr("UNOP", "neg", <<HandCompare("eq")>>),
   Expr("BINOP", "and", <<HandCompare("eq"), HandCompare(">")>>),
   Expr("BINOP", "or", <<HandCompare(">"), Expr("UNOP", "not", <<HandCompare("eq")>>)>>),
   Expr("BINOP", "or", <<HandCompare(">"), Expr("NUMBER", "1", <<>>)>>),
   Expr("BINOP", "eq", <<HandCompare("eq"), HandCompare("eq")>>),
   Expr("BINOP", ">", <<Expr("BINOP", "plus", <<Expr("VAR", "x", <<>>), Expr("NUMBER", "1", <<>>)>>),
                        Expr("BINOP", "mult", <<Expr("VAR", "x", <<>>), Expr("VAR", "x", <<>>)>>)>>),
   Expr("BINOP", "minus", <<Expr("VAR", "x", <<>>), Expr("BINOP", "div", <<Expr("VAR", "x", <<>>), Expr("NUMBER", "1", <<>>)>>)>>)}

FewBodies ==
  {HandAlgo(<<Expr("ASSIGN_EXPR", NoneV, <<Expr("VAR", "z", <<>>), Expr("VAR", "z", <<>>)>>),
              Expr("WHILE", NoneV, <<Expr("VAR", "x", <<>>), HandAlgo(<<HandHalt>>)>>)>>)}

FewInstrs ==
  {HandHalt} \cup HandAssignments(FewTerms) \cup HandBranches(FewConds, {HandAlgo(<<HandHalt>>)})
    \cup HandBranches({Expr("BINOP", ">", <<Expr("VAR", "x", <<>>), Expr("NUMBER", "1", <<>>)>>)},
                      FewBodies)

RECURSIVE ListsOver(_, _)
ListsOver(S, n) ==
  IF n = 0 THEN {<<>>} ELSE {<<>>} \cup {<<h>> \o t : h \in S, t \in ListsOver(S, n - 1)}

HandInstrLists(depth, n) ==
  {<<i>> : i \in HandAssignments(HandTerms(depth))
             \cup HandBranches(HandTerms(depth) \cup DeepConds, {HandAlgo(<<HandHalt>>)})}
    \cup {l \in ListsOver(FewInstrs, n) : Len(l) >= 2}

\* Declaration lists: every list of up to n of three names, and four distinct
\* names.
DeclLists(n) == ListsOver({"a", "b", "c"}, n) \cup {<<"a", "b", "c", "d">>}

HandDecls(names) == [i \in DOMAIN names |-> Expr("VarDeclNode", names[i], <<>>)]

HandBody(locals, instrs) ==
  Expr("BODY", NoneV, <<Expr("LOCALS_BLOCK", NoneV, HandDecls(locals)), HandAlgo(instrs)>>)

\* None as a constructor argument.
NoExpr == Expr(NoneV, NoneV, <<>>)

\* func_with_params_and_body(name, params, locals, instrs, explicit_return_atom):
\* the explicit atom is left out for None.
func_with_params_and_body(name, params, locals, instrs, explicit_return_atom) ==
  Expr("func_with_params_and_body", name,
       HandDecls(params) \o <<HandBody(locals, instrs)>>
         \o (IF explicit_return_atom = NoExpr THEN <<>> ELSE <<explicit_return_atom>>))

proc_with_params_and_body(name, params, locals, instrs) ==
  Expr("proc_with_params_and_body", name, HandDecls(params) \o <<HandBody(locals, instrs)>>)

\* mk_prog(glob_vars, procs, funcs, main_instrs, main_vars).
mk_prog(glob_vars, procs, funcs, main_instrs, main_vars) ==
  Expr("mk_prog", NoneV,
       <<Expr("GLOBALS", NoneV, HandDecls(glob_vars)),
         Expr("PROCS", NoneV, procs),
         Expr("FUNCS", NoneV, funcs),
         Expr("MAIN", NoneV, <<Expr("VARS_BLOCK", NoneV, HandDecls(main_vars)),
                               HandAlgo(main_instrs)>>)>>)

\* A function with an explicit return atom, and one that returns from its
\* body.
HandFuncs(params, locals) ==
  {func_with_params_and_body("f", params, locals, <<HandHalt>>, Expr("NUMBER", "1", <<>>)),
   func_with_params_and_body("f", params, locals,
                             <<Expr("RETURN", NoneV, <<Expr("NUMBER", "1", <<>>)>>)>>, NoExpr)}

HandProcs(params, locals) == {proc_with_params_and_body("p", params, locals, <<HandHalt>>)}

\* The same routines made with the subclasses, in one constructor expression.
HandFuncNodes(params, locals) ==
  {Expr("FuncNode", "f",
        HandDecls(params)
          \o <<HandBody(locals, <<Expr("RETURN", NoneV, <<Expr("NUMBER", "1", <<>>)>>)>>)>>)}

HandProcNodes(params, locals) ==
  {Expr("ProcNode", "p", HandDecls(params) \o <<HandBody(locals, <<HandHalt>>)>>)}

\* Return atoms: a number, a boolean literal, and variables that name a
\* parameter, a local, a global and nothing.
HandReturnAtoms ==
  {Expr("NUMBER", "1", <<>>), Expr("BOOL", "True", <<>>), Expr("VAR", "a", <<>>),
   Expr("VAR", "b", <<>>), Expr("VAR", "x", <<>>), Expr("VAR", "z", <<>>)}

\* The last instructions of a function body: none that returns, or a RETURN.
HandLastInstrs ==
  {<<HandHalt>>, <<Expr("PRINT", NoneV, <<Expr("STRING", "hi", <<>>)>>)>>}
    \cup {<<HandHalt, Expr("RETURN", NoneV, <<a>>)>> : a \in HandReturnAtoms \ {Expr("VAR", "z", <<>>)}}

HandReturnFuncs(name, params, locals) ==
  {func_with_params_and_body(name, params, locals, l, a) :
     l \in HandLastInstrs, a \in HandReturnAtoms \cup {NoExpr}}

\* The programs of the edge cases: one global, x, and no variable of main.
HandProgram(procs, funcs, instrs) == mk_prog(<<"x">>, procs, funcs, instrs, <<>>)

\* Nodes that check_proc, check_func, check_body and check_main refuse, next
\* to well-formed ones with branches and loops in their bodies.
HandNestedInstrs == HandBranches({HandCompare(">")}, FewBodies)

MalformedProcs ==
  {Expr("PROC", "p", <<>>),
   Expr("PROC", "p", <<Expr("BODY", NoneV, <<Expr("LOCALS_BLOCK", NoneV, <<>>)>>)>>),
   Expr("VAR", "p", <<>>)}
    \cup {Expr("PROC", "p", <<Expr("VarDeclNode", "a", <<>>), HandBody(<<"b">>, <<i>>)>>) :
            i \in HandNestedInstrs}

MalformedFuncs ==
  {Expr("FUNC", "f", <<>>),
   Expr("FUNC", "f", <<Expr("BODY", NoneV, <<>>)>>),
   Expr("PROC", "f", <<>>),
   Expr("FUNC", "f", <<Expr("VarDeclNode", "a", <<>>), Expr("LOCALS_BLOCK", NoneV, <<>>)>>),
   func_with_params_and_body("f", <<"a">>, <<>>,
                             <<Expr("DO_UNTIL", NoneV, <<HandAlgo(<<HandHalt>>), HandCompare(">")>>)>>,
                             Expr("NUMBER", "1", <<>>))}

MalformedMains ==
  {Expr("MAIN", NoneV, <<Expr("VARS_BLOCK", NoneV, <<>>)>>),
   Expr("ALGO", NoneV, <<Expr("VARS_BLOCK", NoneV, <<>>), HandAlgo(<<HandHalt>>)>>),
   Expr("MAIN", NoneV, <<Expr("VARS_BLOCK", NoneV, <<>>), HandAlgo(<<HandHalt>>)>>)}
    \cup {Expr("MAIN", NoneV, <<Expr("VARS_BLOCK", NoneV, <<>>), HandAlgo(<<i, HandHalt>>)>>) :
            i \in HandNestedInstrs}

MalformedPrograms ==
  {Expr("ProgramNode", NoneV,
        <<Expr("GLOBALS", NoneV, <<Expr("VarDeclNode", "x", <<>>)>>),
          Expr("PROCS", NoneV, ps), Expr("FUNCS", NoneV, fs), m>>) :
     ps \in {<<>>} \cup {<<q>> : q \in MalformedProcs}
              \cup {<<Expr("PROC", "p", <<>>), Expr("VAR", "p", <<>>)>>},
     fs \in {<<>>} \cup {<<g>> : g \in MalformedFuncs},
     m \in MalformedMains}
    \cup {Expr("PROGRAM", NoneV,
                <<Expr("GLOBALS", NoneV, <<>>), Expr("PROCS", NoneV, <<>>),
                  Expr("FUNCS", NoneV, <<>>)>>),
          HandAlgo(<<HandHalt>>),
          Expr("MAIN", NoneV,
               <<Expr("GLOBALS", NoneV, <<>>), Expr("PROCS", NoneV, <<>>),
                 Expr("FUNCS", NoneV, <<>>),
                 Expr("MAIN", NoneV, <<Expr("VARS_BLOCK", NoneV, <<>>), HandAlgo(<<HandHalt>>)>>)>>)}

DeclPairs(n) ==
  {<<l, <<>>>> : l \in DeclLists(n)} \cup {<<<<"a">>, l>> : l \in DeclLists(n)}
    \cup {<<<<"a", "b", "c">>, <<"a", "b", "c">>>>, <<<<"a", "b", "c", "d">>, <<"b", "b">>>>}

HandPrograms(depth, n, decls) ==
  {HandProgram(<<>>, <<>>, l) : l \in HandInstrLists(depth, n)}
    \cup {HandProgram(<<>>, <<f>>, <<HandHalt>>) :
            f \in UNION {HandFuncs(d[1], d[2]) : d \in DeclPairs(decls)}}
    \cup {HandProgram(<<p>>, <<>>, <<HandHalt>>) :
            p \in UNION {HandProcs(d[1], d[2]) : d \in DeclPairs(decls)}}
    \cup {HandProgram(<<p>>, <<f>>, <<HandHalt>>) :
            p \in HandProcs(<<"a", "a">>, <<"b", "c", "a", "b">>)
                    \cup HandProcNodes(<<"a", "a">>, <<"b", "c", "a", "b">>),
            f \in HandFuncs(<<"a", "b", "c", "d">>, <<"c", "c">>)
                    \cup HandFuncNodes(<<"a", "b", "c", "d">>, <<"c", "c">>)}
    \cup {HandProgram(<<p>>, <<f>>, <<>>) :
            p \in HandProcNodes(<<"a">>, <<"b">>), f \in HandFuncNodes(<<"a">>, <<"b">>)}

\* Programs of one function, and of two, over the ways to return.
HandReturnPrograms ==
  {HandProgram(<<>>, <<f>>, <<HandHalt>>) :
     f \in HandReturnFuncs("f", <<"a">>, <<"b">>) \cup HandReturnFuncs("f", <<>>, <<>>)}
    \cup {HandProgram(<<>>, <<g, f>>, <<HandHalt>>) :
            g \in {func_with_params_and_body("f1", <<>>, <<>>, l, NoExpr) : l \in HandLastInstrs},
            f \in {func_with_params_and_body("f2", <<"a">>, <<"b">>, <<HandHalt>>, a) :
                     a \in HandReturnAtoms \cup {NoExpr}}}

InitCheck == InitAll(<<>>, "hand", LexerRun(<<>>))

CheckFrame ==
  UNCHANGED <<source, tokens, accepted, intermediate_file, label_map, basic_file, cfg,
              reductions, lexer, call, previous>>

\* A tree built earlier in the same process, here the smallest program: the
\* counter stands where its construction left it.
BuildEarlier ==
  /\ pc = "hand"
  /\ ast_counter = 0
  /\ ast_counter' = Construct(HandProgram(<<>>, <<>>, <<HandHalt>>), ast_counter).nid
  /\ UNCHANGED <<pc, ast, symbol_table, report, checker>>
  /\ CheckFrame

HandBuilt(r) ==
  /\ ast' = r.node
  /\ ast_counter' = r.nid
  /\ pc' = "hand_built"

HandBuild ==
  /\ pc = "hand"
  /\ \E e \in HandPrograms(MaxCondDepth, MaxCheckInstrs, MaxDecls) :
       HandBuilt(Construct(e, ast_counter))
  /\ UNCHANGED <<symbol_table, report, checker>>
  /\ CheckFrame

\* run_check: root = SymbolTable("everywhere"); TypeChecker(root).check_program(node).
RunCheckResult(tc) ==
  /\ report' = tc.errors
  /\ symbol_table' = tc.tab
  /\ checker' = CheckerLeft(tc)
  /\ pc' = "hand_checked"

RunCheck ==
  /\ pc = "hand_built"
  /\ RunCheckResult(check_program(TypeChecker(SymbolTable("everywhere", symbol_table.sid)), ast))
  /\ UNCHANGED <<ast, ast_counter>>
  /\ CheckFrame

NextCheck == BuildEarlier \/ HandBuild \/ RunCheck

SpecCheck == InitCheck /\ [][NextCheck]_vars

\* The edge cases: functions over the ways to return, and trees with nodes
\* that the check_* functions refuse.
ReturnBuild ==
  /\ pc = "hand"
  /\ \E e \in HandReturnPrograms : HandBuilt(Construct(e, ast_counter))
  /\ UNCHANGED <<symbol_table, report, checker>>
  /\ CheckFrame

MalformedBuild ==
  /\ pc = "hand"
  /\ \E e \in MalformedPrograms : HandBuilt(Construct(e, ast_counter))
  /\ UNCHANGED <<symbol_table, report, checker>>
  /\ CheckFrame

NextEdgeCases == NextCheck \/ ReturnBuild \/ MalformedBuild

SpecEdgeCases == InitCheck /\ [][NextEdgeCases]_vars

(***************************************************************************)
(* Properties of the pipeline (Spec).                                      *)
(***************************************************************************)

\* C1: every token sequence derivable from the grammar, the programs with
\* function definitions included, is accepted by SLRParser.parse.
C1_DerivableAccepted == (pc \notin {"parse", "parsing"} /\ source \in Derivable) => accepted

\* C2: for every token sequence that parse accepts, build_ast returns a
\* PROGRAM tree without raising.
C2_AcceptedBuilds == (accepted /\ pc \notin {"parse", "build_ast"}) => ast.type = "PROGRAM"

\* C3: the IR file and the BASIC file are written only when the type
\* checker's report holds no error.
C3_OutputOnlyWhenClean == (intermediate_file.written \/ basic_file.written) => report = <<>>

\* The terms that are not numeric: not, and, or, eq and > at the top.
NonNumericTerms ==
  {t \in Terms(MaxTermDepth) \cup {<<"(", "1", "and", "2", ")">>} :
     Len(t) > 1 /\ (t[2] = "not" \/ t[Len(t) - 2] \in {"and", "or", "eq", ">"})}

\* The programs whose main is one assignment of such a term to a declared
\* variable.
NonNumericAssignments ==
  {Program(g, <<>>, <<>>, <<"x">>, <<"x", "=">> \o t) :
     g \in {<<>>, <<"x">>}, t \in NonNumericTerms}
    \cup {Program(<<"x", "y">>, <<>>, <<>>, <<"y", "p">>, <<"p", "=", "(", "1", "and", "2", ")">>)}

\* C4: for a main block that assigns a non-numeric term to a declared
\* variable, the report of the checker run on build_ast's tree holds the error
\* "right-hand side of assignment must be numeric".
C4_NonNumericReported ==
  (pc \in {"generate_code", "convert", "done"} /\ source \in NonNumericAssignments)
    => \E i \in DOMAIN report :
         report[i] = "main/algo/instr[0]: right-hand side of assignment must be numeric"

WordsOf(lines) == UNION {Range(lines[i]) : i \in DOMAIN lines}

DeclaredNames(tab, s) == {tab.scopes[s].symbols[i].name : i \in DOMAIN tab.scopes[s].symbols}

\* C5: in the code generated with build_symbol_table's table, a variable
\* declared in main or in glob never appears under its bare name, and with x
\* declared in both, x = 10 is emitted as main_x = 10.
C5_QualifiedNames ==
  intermediate_file.written =>
    /\ \A n \in DeclaredNames(symbol_table, 2) \cup DeclaredNames(symbol_table, 3) :
         n \notin WordsOf(intermediate_file.lines)
    /\ source = Program(<<"x">>, <<>>, <<>>, <<"x">>, <<"x", "=", "10">>)
         => intermediate_file.lines = << <<"main_x", "=", "10">> >>

\* C6: in the scope tree built for the program, lookup from the main scope of
\* a name declared in the global scope and not in main returns the global
\* symbol.
C6_MainSeesGlobals ==
  pc \in {"type_check", "generate_code", "convert", "done"} =>
    \A i \in DOMAIN symbol_table.scopes[2].symbols :
      ~Declared(symbol_table, 3, symbol_table.scopes[2].symbols[i].name)
        => lookup(symbol_table, 3, symbol_table.scopes[2].symbols[i].name)
             = symbol_table.scopes[2].symbols[i]

RECURSIVE NodesOf(_)
NodesOf(node) == {node} \cup UNION {NodesOf(node.children[i]) : i \in DOMAIN node.children}

FreshTemporary(r) ==
  /\ r.result # "0"
  /\ r.result = TempName(r.g.temp_counter)
  /\ r.code # <<>>
  /\ r.code[Len(r.code)][1] = r.result

\* C7: for every UNOP and BINOP node of the tree build_ast returns,
\* _translate_term ends its code with an assignment to one fresh temporary
\* and returns it, never the fallback operand "0".
C7_OperatorTermsTranslated ==
  \A n \in NodesOf(ast) :
    n.type \in {"UNOP", "BINOP"} => FreshTemporary(_translate_term(symbol_table, CodeGenerator, n))

IsJump(line) == line[1] = "GOTO" \/ (line[1] = "IF" /\ line[Len(line) - 1] = "THEN")
JumpTarget(line) == line[Len(line)]
JumpTargets(lines) == {JumpTarget(lines[i]) : i \in {j \in DOMAIN lines : IsJump(lines[j])}}
LabelDefs(lines) == {lines[i][2] : i \in {j \in DOMAIN lines : lines[j][1] = "REM"}}
DefinedAt(lines, label) == {i \in DOMAIN lines : lines[i] = <<"REM", label>>}

\* C8: in the IR of one generate call every label is defined by exactly one
\* REM line, the labels that are targets of GOTO and of IF ... THEN included.
C8_LabelsDefinedOnce ==
  \A l \in LabelDefs(intermediate_file.lines) \cup JumpTargets(intermediate_file.lines) :
    Cardinality(DefinedAt(intermediate_file.lines, l)) = 1

\* A loop nested in a loop: six labels, all of them jumped to.
C8_NestedLabels ==
  /\ pc = "convert"
  /\ Cardinality(LabelDefs(intermediate_file.lines)) >= 6
  /\ JumpTargets(intermediate_file.lines) = LabelDefs(intermediate_file.lines)

\* The numbered line of the output without its number.
Unnumbered(line) == Tail(line)

\* C9: after generate_line_numbers and replace_labels, distinct labels have
\* distinct line numbers, no jump target is still a label, and every target
\* is the number of the output line that carries the REM of its label.
C9_LabelsResolved ==
  pc = "done" =>
    /\ \A e1, e2 \in label_map : e1[1] # e2[1] => e1[2] # e2[2]
    /\ \A l \in LabelDefs(intermediate_file.lines) : InMap(label_map, l)
    /\ \A i \in DOMAIN intermediate_file.lines :
         IsJump(intermediate_file.lines[i]) =>
           /\ IsJump(Unnumbered(basic_file.lines[i]))
           /\ JumpTarget(basic_file.lines[i]) \notin
                LabelDefs(intermediate_file.lines) \cup JumpTargets(intermediate_file.lines)
           /\ \E j \in DOMAIN basic_file.lines :
                basic_file.lines[j] = <<JumpTarget(basic_file.lines[i]), "REM",
                                        JumpTarget(intermediate_file.lines[i])>>

\* A run that resolved a forward jump and a backward jump.
C9_BothDirections ==
  /\ pc = "done"
  /\ \E i, j \in DOMAIN intermediate_file.lines :
       /\ i < j /\ IsJump(intermediate_file.lines[i])
       /\ intermediate_file.lines[j] = <<"REM", JumpTarget(intermediate_file.lines[i])>>
  /\ \E i, j \in DOMAIN intermediate_file.lines :
       /\ j < i /\ IsJump(intermediate_file.lines[i])
       /\ intermediate_file.lines[j] = <<"REM", JumpTarget(intermediate_file.lines[i])>>

(***************************************************************************)
(* Properties of the parse loop (SpecParse).                               *)
(***************************************************************************)

\* The symbol every transition into state j is made on: the one before the
\* dot of its kernel items.
AccessSymbol(j) ==
  LET it == CHOOSE c \in states[j + 1] : c[2] > 0 IN BodyOf(it[1])[it[2]]

StackSymbols(stack) == [i \in 1 .. (Len(stack) - 1) |-> AccessSymbol(stack[i + 1])]

\* The next reduce finds the body of its production on top of the stack.
HandleOnTop(stack, act) ==
  act[1] = "reduce" =>
    /\ Len(stack) > Len(BodyOf(act[2]))
    /\ SubSeq(StackSymbols(stack), Len(stack) - Len(BodyOf(act[2])), Len(stack) - 1)
         = BodyOf(act[2])

HasNonterminal(form) == \E i \in DOMAIN form : form[i] \in nonterminals

Rightmost(form) ==
  CHOOSE i \in DOMAIN form :
    form[i] \in nonterminals /\ \A j \in DOMAIN form : j > i => form[j] \notin nonterminals

\* The rightmost derivation the reduce steps spell, last reduction first; a
\* step that does not rewrite the rightmost nonterminal gives no derivation.
RECURSIVE Derive(_, _)
DeriveAt(form, reds, i) ==
  IF form[i] = HeadOf(reds[Len(reds)])
  THEN Derive(SubSeq(form, 1, i - 1) \o BodyOf(reds[Len(reds)])
                \o SubSeq(form, i + 1, Len(form)),
              SubSeq(reds, 1, Len(reds) - 1))
  ELSE <<"no derivation">>

Derive(form, reds) ==
  IF reds = <<>> THEN form
  ELSE IF HasNonterminal(form) THEN DeriveAt(form, reds, Rightmost(form))
  ELSE <<"no derivation">>

\* C10: every reduce step applies a production to the symbols on top of the
\* stack, accept is taken only in a state that holds S' -> SPL_PROG . with the
\* whole input consumed, and the reduce steps of an accepted sequence are a
\* derivation of it from S'.
C10_ParserSound ==
  /\ cfg.result = "run"
       => HandleOnTop(cfg.stack, ActionAt(cfg.stack, ParserTokens(tokens), cfg.pointer))
  /\ cfg.result = "accept" =>
       /\ <<1, Len(BodyOf(1))>> \in states[cfg.stack[Len(cfg.stack)] + 1]
       /\ cfg.pointer = Len(tokens)
       /\ Derive(BodyOf(1), reductions) = ParserTokens(tokens)

\* An accepted program with a procedure definition, a nested term and an
\* if-else.
C10_AcceptedRich == cfg.result = "accept" /\ source = Rich /\ Len(reductions) > Len(Rich) \div 2

(***************************************************************************)
(* Properties of the lexer (SpecLex).                                      *)
(***************************************************************************)

\* The (line, col) of the character at 0-based index k of the text, counted
\* from the text itself.
PositionOf(text, k) ==
  LET newlines == {j \in 1..k : text[j] = "\n"}
      last == IF newlines = {} THEN 0
              ELSE CHOOSE j \in newlines : \A m \in newlines : m <= j
  IN <<1 + Cardinality(newlines), k - last + 1>>

\* The first __next__ call on the text has been made.
FirstCallMade == Len(lexer.tokens) >= 1 \/ lexer.result # "run"

\* What the last __next__ call did.
LastCallOutcome ==
  \/ /\ lexer.result = "run"
     /\ Len(lexer.tokens) >= 1
     /\ lexer.lx.i > lexer.before.i
  \/ /\ lexer.result = "stop"
     /\ lexer.lx.i = lexer.lx.n
  \/ /\ lexer.result = "error"
     /\ \E k \in 0..(lexer.lx.n - 1) :
          PositionOf(lexer.lx.source, k) = <<lexer.error.line, lexer.error.col>>

\* C11: every __next__ call returns a token and consumes at least one
\* character, or raises StopIteration at the end of the input, or raises a
\* LexerError at the position of a character of the input.  Iterating the
\* lexer comes to an end: the tokens returned never outnumber the
\* characters consumed, which never outnumber the characters of the input.
C11_LexerTerminates ==
  /\ FirstCallMade => LastCallOutcome
  /\ Len(lexer.tokens) <= lexer.lx.i /\ lexer.lx.i <= lexer.lx.n

\* An error on the second line, after a token was returned.
C11_ErrorAfterToken ==
  lexer.result = "error" /\ Len(lexer.tokens) >= 1 /\ lexer.error.line = 2

\* The text is one lexeme of the pattern [a-z][a-z0-9]*.
IsIdentLexeme(text) ==
  /\ text # <<>>
  /\ text[1] \in LowerChars
  /\ \A i \in DOMAIN text : text[i] \in LowerChars \cup DigitChars

\* C12: a lexeme [a-z][a-z0-9]* lexes to a single token, of the keyword kind
\* if and only if it is one of the 23 keywords and IDENT otherwise.
C12_KeywordOrIdent ==
  /\ Cardinality(KeywordChars) = 23
  /\ (lexer.result # "run" /\ IsIdentLexeme(lexer.lx.source)) =>
       /\ lexer.result = "stop"
       /\ Len(lexer.tokens) = 1
       /\ lexer.tokens[1].value = Join(lexer.lx.source)
       /\ lexer.tokens[1].type =
            IF lexer.lx.source \in KeywordChars THEN Join(lexer.lx.source) ELSE "IDENT"

\* A keyword followed by a digit, lexed as one identifier.
C12_KeywordPrefix ==
  /\ lexer.result = "stop"
  /\ lexer.lx.source = <<"p", "l", "u", "s", "9">>
  /\ Len(lexer.tokens) = 1 /\ lexer.tokens[1].type = "IDENT"

\* The digits the text starts with.
DigitRun(text) ==
  SubSeq(text, 1, CHOOSE k \in 0..Len(text) :
                    /\ \A j \in 1..k : text[j] \in DigitChars
                    /\ k < Len(text) => text[k + 1] \notin DigitChars)

\* C13: a digit run is one NUMBER token when it is "0" or starts with 1..9;
\* a 0 followed by a digit raises "Numbers cannot have leading zeros" and no
\* token is returned for the run.
C13_NumberOrLeadingZero ==
  (FirstCallMade /\ lexer.lx.source # <<>> /\ lexer.lx.source[1] \in DigitChars) =>
    IF DigitRun(lexer.lx.source) = <<"0">> \/ lexer.lx.source[1] # "0"
    THEN /\ lexer.tokens[1] = _make("NUMBER", Join(DigitRun(lexer.lx.source)), 1, 1)
         /\ (Len(lexer.tokens) = 1 /\ lexer.result = "run")
              => lexer.lx.i = Len(DigitRun(lexer.lx.source))
    ELSE /\ lexer.tokens = <<>>
         /\ lexer.result = "error"
         /\ lexer.error.message = "Numbers cannot have leading zeros"

\* 0 followed by a digit was refused.
C13_LeadingZeroRefused ==
  /\ lexer.lx.source = <<"0", "9">>
  /\ lexer.result = "error"
  /\ lexer.error.message = "Numbers cannot have leading zeros"

\* The quotes after the opening quote.
ClosingQuotes(text) == {j \in 2..Len(text) : text[j] = "\""}

\* The literal the text starts with is closed, holds letters and digits only
\* (so no newline) and has at most 15 of them.
WellFormedString(text) ==
  \E j \in ClosingQuotes(text) :
    /\ j - 2 <= 15
    /\ \A k \in 2..(j - 1) : text[k] \in LowerChars \cup UpperChars \cup DigitChars

InnerChars(text) ==
  SubSeq(text, 2, (CHOOSE j \in ClosingQuotes(text) : \A m \in ClosingQuotes(text) : j <= m) - 1)

\* C14: a string literal lexes to a STRING token that holds its inner
\* characters if and only if it is closed on its line, its inner characters
\* are letters and digits and there are at most 15 of them; every other
\* literal raises LexerError.
C14_StringLiteral ==
  (FirstCallMade /\ lexer.lx.source # <<>> /\ lexer.lx.source[1] = "\"") =>
    IF WellFormedString(lexer.lx.source)
    THEN lexer.tokens[1] = _make("STRING", Join(InnerChars(lexer.lx.source)), 1, 1)
    ELSE lexer.tokens = <<>> /\ lexer.result = "error"

\* A literal of exactly 15 inner characters was lexed.
C14_LongestString ==
  /\ Len(lexer.lx.source) = 17
  /\ Len(lexer.tokens) = 1
  /\ lexer.tokens[1].type = "STRING"
  /\ lexer.tokens[1].value = "ZZZZZZZZZZZZZZZ"

(***************************************************************************)
(* Properties of the scope tree (SpecScopes).                              *)
(***************************************************************************)

NamesOf(symbols) == {symbols[i].name : i \in DOMAIN symbols}

\* C15: add raises if and only if the name is already a key of the scope's
\* own symbols, whatever its ancestors and siblings declare; an add that
\* raised leaves the scope's symbols as they were, and one that returned
\* added the name to them.
C15_AddRaisesOnOwnName ==
  call.op = "add" =>
    /\ call.raised <=> call.name \in NamesOf(call.before)
    /\ call.raised => symbol_table.scopes[call.scope].symbols = call.before
    /\ ~call.raised =>
         /\ Len(symbol_table.scopes[call.scope].symbols) = Len(call.before) + 1
         /\ SubSeq(symbol_table.scopes[call.scope].symbols, 1, Len(call.before)) = call.before
         /\ symbol_table.scopes[call.scope].symbols[Len(call.before) + 1].name = call.name

\* An add that returned in a scope whose parent and whose sibling both
\* declare the name.
C15_ShadowingAllowed ==
  /\ call.op = "add" /\ ~call.raised
  /\ Len(symbol_table.scopes) = 3
  /\ symbol_table.scopes[2].parent = 1 /\ symbol_table.scopes[3].parent = 1
  /\ \A s \in 1..3 : call.name \in NamesOf(symbol_table.scopes[s].symbols)

(***************************************************************************)
(* Properties of two compilations in one process (SpecTwice).              *)
(***************************************************************************)

\* C16: the second compilation of a source gives what the first one gave:
\* the same AST with the same node ids, the same symbols with the same ids,
\* and the same IR and BASIC lines, temporaries and labels included.
C16_SecondRunIdentical ==
  (pc = "done" /\ previous # <<>>) => Compiled = previous[1]

(***************************************************************************)
(* Every way the repository makes trees: the compilation, run once or      *)
(* twice in a process, and the trees built by hand.                        *)
(***************************************************************************)
InitNodes == Init \/ InitCheck

\* Node construction only: the compilations, and trees built by hand.
NextNodes == NextTwice \/ BuildEarlier \/ HandBuild

SpecNodes == InitNodes /\ [][NextNodes]_vars

\* The ids of a tree, parents before children.
RECURSIVE IdsOf(_), IdsOfAll(_)
IdsOf(node) == <<node.id>> \o IdsOfAll(node.children)

IdsOfAll(nodes) == IF nodes = <<>> THEN <<>> ELSE IdsOf(Head(nodes)) \o IdsOfAll(Tail(nodes))

\* A node is given its children when it is constructed, so it is constructed
\* after each of them.
RECURSIVE ChildrenFirst(_)
ChildrenFirst(node) ==
  \A k \in DOMAIN node.children :
    node.id > node.children[k].id /\ ChildrenFirst(node.children[k])

NoSharedId(ids) == Cardinality(Range(ids)) = Len(ids)

HandedOutLater(ids, before) == \A i \in ids : \A j \in before : i > j

\* C17: in the tree of one compilation, and in a tree built by hand with
\* ProgramNode, VarDeclNode, FuncNode and ProcNode, no two nodes share an
\* id; every id was taken from the counter (it is below the counter's next
\* value); in a hand-built tree every node has a greater id than each of its
\* children, which were constructed before it; and
\* the ids of a second compilation are all greater than those of the first.
C17_NoSharedId ==
  ast # NoNode =>
    /\ NoSharedId(IdsOf(ast))
    /\ Range(IdsOf(ast)) \subseteq 0..(ast_counter - 1)
    /\ pc \in {"hand_built", "hand_checked"} => ChildrenFirst(ast)
    /\ previous # <<>> => HandedOutLater(Range(IdsOf(ast)), Range(IdsOf(previous[1].ast)))

\* C17 witness: a hand-built tree, made after an earlier one, that holds a
\* PROGRAM, a FUNC made by FuncNode in one expression (no return child, and
\* LOCALS_BLOCK made before the first instruction), a PROC and more than
\* three VAR declarations.
C17_SubclassesBuilt ==
  /\ pc = "hand_built"
  /\ ast.id > Len(IdsOf(ast))
  /\ ast.children[2].children # <<>>
  /\ ast.children[3].children # <<>>
  /\ ast.children[3].children[1].children[Len(ast.children[3].children[1].children)].type = "BODY"
  /\ Len(ast.children[3].children[1].children) > 4
  /\ ast.children[3].children[1].children[5].children[1].id
       < ast.children[3].children[1].children[5].children[2].children[1].id

(***************************************************************************)
(* The typing rules, read off a hand-built tree without the checker:       *)
(* visible is the set of declared variable names.                          *)
(***************************************************************************)
RECURSIVE TermType(_, _)
OperandTypes(t, visible) == [k \in DOMAIN t.children |-> TermType(t.children[k], visible)]

TermType(t, visible) ==
  CASE t.type = "NUMBER" -> "numeric"
    [] t.type = "VAR" -> IF t.value \in visible THEN "numeric" ELSE "untyped"
    [] t.type = "UNOP" /\ t.value = "neg" ->
         IF OperandTypes(t, visible) = <<"numeric">> THEN "numeric" ELSE "untyped"
    [] t.type = "UNOP" /\ t.value = "not" ->
         IF OperandTypes(t, visible) = <<"boolean">> THEN "boolean" ELSE "untyped"
    [] t.type = "BINOP" /\ t.value \in {"plus", "minus", "mult", "div"} ->
         IF OperandTypes(t, visible) = <<"numeric", "numeric">> THEN "numeric" ELSE "untyped"
    [] t.type = "BINOP" /\ t.value \in {"and", "or"} ->
         IF OperandTypes(t, visible) = <<"boolean", "boolean">> THEN "boolean" ELSE "untyped"
    [] t.type = "BINOP" /\ t.value \in {"eq", ">"} ->
         IF OperandTypes(t, visible) = <<"numeric", "numeric">> THEN "boolean" ELSE "untyped"
    [] OTHER -> "untyped"

\* The names declared by the GLOBALS and by the variables of MAIN.
VisibleInMain(program) ==
  {program.children[1].children[k].value : k \in DOMAIN program.children[1].children}
    \cup {program.children[4].children[1].children[k].value :
            k \in DOMAIN program.children[4].children[1].children}

\* Every instruction of an ALGO, nested ones included, with its context.
RECURSIVE InstrSites(_, _)
NestedSites(instr, ctx) ==
  CASE instr.type = "IF" ->
         InstrSites(instr.children[2], ctx \o "/then")
           \cup (IF Len(instr.children) > 2 THEN InstrSites(instr.children[3], ctx \o "/else")
                 ELSE {})
    [] instr.type = "WHILE" -> InstrSites(instr.children[2], ctx \o "/while-body")
    [] instr.type = "DO_UNTIL" -> InstrSites(instr.children[1], ctx \o "/do-body")
    [] OTHER -> {}

InstrSites(algo, ctx) ==
  UNION {{[node |-> algo.children[k], ctx |-> ctx \o "/instr[" \o ToString(k - 1) \o "]"]}
           \cup NestedSites(algo.children[k], ctx \o "/instr[" \o ToString(k - 1) \o "]") :
         k \in DOMAIN algo.children}

MainSites(program) == InstrSites(program.children[4].children[2], "main/algo")

\* The condition of a branch or loop and the error it gets when it is not boolean.
ConditionOf(instr) == IF instr.type = "DO_UNTIL" THEN instr.children[2] ELSE instr.children[1]

ConditionError(site) ==
  site.ctx \o ": "
    \o (CASE site.node.type = "IF" -> "if"
          [] site.node.type = "WHILE" -> "while"
          [] site.node.type = "DO_UNTIL" -> "do-until")
    \o " condition must be boolean"

\* The errors an instruction has on its own account.
OwnErrors(site, visible) ==
  CASE site.node.type = "ASSIGN_EXPR" ->
         (IF TermType(site.node.children[2], visible) # "numeric"
          THEN {site.ctx \o ": right-hand side of assignment must be numeric"} ELSE {})
           \cup (IF site.node.children[1].value \notin visible
                 THEN {site.ctx \o "/target: undeclared variable '"
                         \o site.node.children[1].value \o "'"}
                 ELSE {})
    [] site.node.type \in {"IF", "WHILE", "DO_UNTIL"} ->
         IF TermType(ConditionOf(site.node), visible) # "boolean" THEN {ConditionError(site)}
         ELSE {}
    [] OTHER -> {}

AllOwnErrors(program) ==
  UNION {OwnErrors(site, VisibleInMain(program)) : site \in MainSites(program)}

\* C18: the report check_program returns holds an error for every
\* instruction of main that has one, wherever it stands: the right-hand
\* side and the target of one assignment, every later instruction, and the
\* instructions inside branch and loop bodies.
C18_EveryErrorReported == pc = "hand_checked" => AllOwnErrors(ast) \subseteq Range(report)

\* C18 witness: a checked program with an assignment that has both errors
\* and, after it, another instruction with an error.
C18_SeveralErrors ==
  /\ pc = "hand_checked"
  /\ Len(ast.children[4].children[2].children) >= 2
  /\ Cardinality(OwnErrors([node |-> ast.children[4].children[2].children[1],
                            ctx |-> "main/algo/instr[0]"], VisibleInMain(ast))) = 2
  /\ "main/algo/instr[1]: while condition must be boolean" \in Range(report)
  /\ "main/algo/instr[0]/target: undeclared variable 'z'" \in Range(report)

\* C19: for every IF, WHILE and DO_UNTIL of main, nested ones included, the
\* report holds the condition error of that instruction exactly when the
\* condition does not type as boolean.
C19_ConditionErrors ==
  pc = "hand_checked" =>
    \A site \in MainSites(ast) :
      site.node.type \in {"IF", "WHILE", "DO_UNTIL"} =>
        (ConditionError(site) \in Range(report)
           <=> TermType(ConditionOf(site.node), VisibleInMain(ast)) # "boolean")

\* C19 witness: a checked program whose first instruction is a loop on a
\* bare NUMBER, reported, and whose second is a branch on a comparison,
\* not reported.
C19_BareAndComparison ==
  /\ pc = "hand_checked"
  /\ Len(ast.children[4].children[2].children) = 2
  /\ ast.children[4].children[2].children[1].type = "DO_UNTIL"
  /\ ast.children[4].children[2].children[1].children[2].type = "NUMBER"
  /\ ast.children[4].children[2].children[2].type = "IF"
  /\ ast.children[4].children[2].children[2].children[1].value = "eq"
  /\ report = <<"main/algo/instr[0]: do-until condition must be boolean">>

\* The declaration lists of the procedures and functions of a program: the
\* parameters are the children before the BODY, the locals the children of
\* the body's first child.
BodyIndex(def) == CHOOSE k \in DOMAIN def.children : def.children[k].type = "BODY"

ListsOf(def, ctx) ==
  {[names |-> [k \in 1..(BodyIndex(def) - 1) |-> def.children[k].value],
    ctx |-> ctx \o "/params"],
   [names |-> [k \in DOMAIN def.children[BodyIndex(def)].children[1].children |->
                 def.children[BodyIndex(def)].children[1].children[k].value],
    ctx |-> ctx \o "/body/locals"]}

DeclSites(program) ==
  UNION {ListsOf(program.children[2].children[k], "proc[" \o ToString(k - 1) \o "]") :
           k \in DOMAIN program.children[2].children}
    \cup UNION {ListsOf(program.children[3].children[k], "func[" \o ToString(k - 1) \o "]") :
                  k \in DOMAIN program.children[3].children}

TimesDeclared(names, n) == Cardinality({k \in DOMAIN names : names[k] = n})

TooManyError(site, n) ==
  site.ctx \o ": at most 3 variables allowed (got " \o ToString(n) \o ")"

DuplicateError(site, n) == site.ctx \o ": duplicate variable '" \o n \o "' in declaration list"

\* C20: for every parameter list and every locals list, the report holds
\* "at most 3 variables allowed" for that list exactly when it has more
\* than 3 declarations (and then with its length), and "duplicate variable
\* 'n' in declaration list" exactly when n occurs more than once in it; a
\* program whose lists all have at most 3 distinct names, and whose
\* instructions have no error, gets an empty report.
C20_MaxThreeAndDuplicates ==
  pc = "hand_checked" =>
    /\ \A site \in DeclSites(ast) :
         /\ \A n \in 0..(Len(site.names) + 1) :
              TooManyError(site, n) \in Range(report) <=> (Len(site.names) > 3 /\ n = Len(site.names))
         /\ \A n \in Range(site.names) \cup {"a", "d"} :
              DuplicateError(site, n) \in Range(report) <=> TimesDeclared(site.names, n) > 1
    /\ (/\ DeclSites(ast) # {}
        /\ AllOwnErrors(ast) = {}
        /\ \A site \in DeclSites(ast) :
             Len(site.names) <= 3 /\ \A n \in Range(site.names) : TimesDeclared(site.names, n) = 1)
         => report = <<>>

\* C20 witness: a checked function with exactly three distinct parameters
\* and exactly three distinct locals, of the same names, and no error.
C20_ThreeDistinct ==
  /\ pc = "hand_checked"
  /\ \E site \in DeclSites(ast) : site.ctx = "func[0]/params" /\ site.names = <<"a", "b", "c">>
  /\ \E site \in DeclSites(ast) : site.ctx = "func[0]/body/locals" /\ site.names = <<"a", "b", "c">>
  /\ report = <<>>

\* The functions of a program, and the parts of a function as the claims
\* name them.
FuncsOf(program) == program.children[3].children

ExplicitAtom(f) ==
  IF Len(f.children) >= 2 /\ f.children[Len(f.children)].type # "BODY"
  THEN f.children[Len(f.children)]
  ELSE NoNode

FuncBody(f) ==
  IF ExplicitAtom(f) = NoNode THEN f.children[Len(f.children)]
  ELSE f.children[Len(f.children) - 1]

TrailingReturn(f) ==
  LET instrs == FuncBody(f).children[2].children
  IN  IF instrs # <<>> /\ instrs[Len(instrs)].type = "RETURN"
      THEN instrs[Len(instrs)].children[1]
      ELSE NoNode

\* An error of the report contains the text: it is the text, or the text
\* followed by the explanation in parentheses.
Reported(errors, text) ==
  \E k \in DOMAIN errors :
    errors[k] \in {text, text \o " (neither explicit child nor RETURN instruction found)"}

FuncCtx(i) == "func[" \o ToString(i - 1) \o "]"

\* C21 (as claimed): for the function at index i of FUNCS, a function with
\* neither an explicit return atom nor a trailing RETURN leaves an error with
\* the text "func[i]/return: missing return atom", and one whose explicit
\* return atom is a boolean literal leaves "func[i]/return: function return
\* atom must be numeric".
C21_ReturnErrorsNamed ==
  pc = "hand_checked" /\ ast.type = "PROGRAM" /\ Len(ast.children) = 4 =>
    \A i \in DOMAIN FuncsOf(ast) :
      LET f == FuncsOf(ast)[i]
      IN  f.type = "FUNC" /\ f.children # <<>> =>
            /\ ExplicitAtom(f) = NoNode /\ TrailingReturn(f) = NoNode =>
                 Reported(report, FuncCtx(i) \o "/return: missing return atom")
            /\ ExplicitAtom(f).type \in {"BOOL", "TRUE", "FALSE"} =>
                 Reported(report, FuncCtx(i) \o "/return: function return atom must be numeric")

\* C22: the run on `glob { } proc { } func { } main { var { } halt }` never
\* returns early or raises: the parser accepts, the report is empty, the IR
\* file is the one line STOP and the BASIC file the one line 10 STOP.
C22_MinimalProgram ==
  source = <<"glob", "{", "}", "proc", "{", "}", "func", "{", "}",
             "main", "{", "var", "{", "}", "halt", "}">> =>
    /\ pc \notin {"returned", "raised"}
    /\ pc # "parse" => accepted
    /\ pc \in {"generate_code", "convert", "done"} => report = <<>>
    /\ pc \in {"convert", "done"} => intermediate_file = File(<< <<"STOP">> >>)
    /\ pc = "done" => basic_file = File(<< <<"10", "STOP">> >>)

\* C22 witness: the run on the minimal program is finished and both files
\* are written.
C22_MinimalDone ==
  /\ source = Smallest
  /\ pc = "done"
  /\ intermediate_file.written
  /\ basic_file.written

(***************************************************************************)
(* test_code_generator.py: trees built by hand in the shape the generator  *)
(* reads (UNOP with children [OP, operand], BINOP with [left, OP, right]), *)
(* given to generate_code_from_ast with the root table SymbolTable         *)
(* ("everywhere").                                                         *)
(***************************************************************************)
MaxGenNesting == 2

GenOp(name) == Expr("OP", name, <<>>)

GenBinop(l, op, r) == Expr("BINOP", NoneV, <<l, GenOp(op), r>>)

GenConds ==
  {Expr("VAR", "x", <<>>),
   GenBinop(Expr("VAR", "x", <<>>), "gt", Expr("NUMBER", "1", <<>>)),
   Expr("UNOP", NoneV, <<GenOp("not"), Expr("VAR", "x", <<>>)>>),
   GenBinop(Expr("UNOP", NoneV, <<GenOp("neg"), Expr("VAR", "x", <<>>)>>), "eq",
            GenBinop(Expr("NUMBER", "1", <<>>), "plus", Expr("VAR", "y", <<>>)))}

GenSimple ==
  {HandHalt,
   Expr("ASSIGN", NoneV, <<Expr("VAR", "x", <<>>),
                           GenBinop(Expr("VAR", "x", <<>>), "mult", Expr("NUMBER", "2", <<>>))>>)}

\* BRANCH and LOOP around the body a and the else part b.
GenCompound(c, a, b) ==
  {Expr("BRANCH", NoneV, <<Expr("IF", NoneV, <<c, HandAlgo(a)>>)>>),
   Expr("BRANCH", NoneV, <<Expr("IF", NoneV, <<c, HandAlgo(a), HandAlgo(b)>>)>>),
   Expr("LOOP", NoneV, <<Expr("WHILE", NoneV, <<c, HandAlgo(a)>>)>>),
   Expr("LOOP", NoneV, <<Expr("DO", NoneV, <<HandAlgo(a), c>>)>>)}

GenWhile ==
  Expr("LOOP", NoneV,
       <<Expr("WHILE", NoneV,
              <<GenBinop(Expr("VAR", "y", <<>>), "gt", Expr("NUMBER", "0", <<>>)),
                HandAlgo(<<HandHalt>>)>>)>>)

\* The instructions nested up to d deep; deeper ones stand alone in the
\* body, and the else part is a halt or a while.
RECURSIVE GenNested(_)
GenNested(d) ==
  IF d = 0 THEN GenSimple
  ELSE IF d = 1
  THEN UNION {GenCompound(c, <<a>>, <<b>>) : c \in GenConds, a \in GenSimple, b \in GenSimple}
  ELSE GenNested(d - 1)
         \cup UNION {GenCompound(c, a, b) :
                       c \in {Expr("UNOP", NoneV, <<GenOp("not"), Expr("VAR", "x", <<>>)>>)},
                       a \in {<<i>> : i \in GenNested(d - 1)},
                       b \in {<<HandHalt>>, <<GenWhile>>}}

\* build_*_test_ast: GLOBALS, empty PROCS and FUNCS, MAIN of VARIABLES and ALGO.
GenProgram(instrs) ==
  Expr("ProgramNode", NoneV,
       <<Expr("GLOBALS", NoneV, <<Expr("VarDeclNode", "x", <<>>), Expr("VarDeclNode", "y", <<>>)>>),
         Expr("PROCS", NoneV, <<>>),
         Expr("FUNCS", NoneV, <<>>),
         Expr("MAIN", NoneV, <<Expr("VARIABLES", NoneV, <<Expr("VarDeclNode", "y", <<>>)>>),
                               HandAlgo(instrs)>>)>>)

\* Roots with fewer than four children, and one whose 4th child is not MAIN.
GenMain(algos) == Expr("MAIN", NoneV, algos)

GenShortPrograms ==
  {Expr("PROGRAM", NoneV, <<GenMain(<<HandAlgo(<<HandHalt>>)>>)>>),
   Expr("PROGRAM", NoneV,
        <<Expr("GLOBALS", NoneV, <<Expr("VarDeclNode", "x", <<>>)>>), Expr("PROCS", NoneV, <<>>),
          GenMain(<<Expr("VARIABLES", NoneV, <<Expr("VarDeclNode", "y", <<>>)>>),
                    HandAlgo(<<GenWhile, HandHalt>>)>>)>>),
   Expr("PROGRAM", NoneV,
        <<GenMain(<<HandAlgo(<<GenWhile>>), HandAlgo(<<GenWhile, HandHalt>>)>>),
          GenMain(<<HandAlgo(<<HandHalt>>)>>)>>),
   Expr("PROGRAM", NoneV, <<Expr("GLOBALS", NoneV, <<>>), Expr("PROCS", NoneV, <<>>)>>),
   Expr("PROGRAM", NoneV,
        <<GenMain(<<HandAlgo(<<HandHalt>>)>>), Expr("PROCS", NoneV, <<>>),
          Expr("FUNCS", NoneV, <<>>), Expr("GLOBALS", NoneV, <<>>)>>)}

GenPrograms(d) ==
  {GenProgram(<<i>>) : i \in GenNested(d)}
    \cup {GenProgram(<<i, j>>) : i \in GenNested(1), j \in {GenWhile, HandHalt}}
    \cup GenShortPrograms

\* The builders of test_code_generator.py run statement by statement: a
\* statement assigns the node of a constructor expression to a variable, and
\* later expressions name the variable.  Ref(name) is a variable in an
\* expression; env is the list of <<variable, node>> assigned so far.
Ref(name) == Expr("ref", name, <<>>)

RECURSIVE ConstructIn(_, _, _)
ConstructIn(e, nid, env) ==
  IF e.type = "ref"
  THEN [node |-> env[CHOOSE i \in DOMAIN env : env[i][1] = e.value][2], nid |-> nid]
  ELSE NewNode(e, [nodes |-> [k \in DOMAIN e.children |->
                                ConstructIn(e.children[k],
                                            nid + NodeCountAll(SubSeq(e.children, 1, k - 1)),
                                            env).node],
                   nid |-> nid + NodeCountAll(e.children)])

\* The statements in order with the counter at nid; the builder returns the
\* variable of its last statement.
RECURSIVE Statements(_, _, _)
Statements(stmts, env, nid) ==
  IF stmts = <<>> THEN [node |-> env[Len(env)][2], nid |-> nid]
  ELSE Then(ConstructIn(Head(stmts)[2], nid, env),
            LAMBDA r : Then(Append(env, <<Head(stmts)[1], r.node>>),
                            LAMBDA assigned : Statements(Tail(stmts), assigned, r.nid)))

build_simple_test_ast(nid) ==
  Statements(
    <<<<"global_x", Expr("VarDeclNode", "x", <<>>)>>,
     <<"global_y", Expr("VarDeclNode", "y", <<>>)>>,
     <<"globals_node", Expr("GLOBALS", NoneV, <<Ref("global_x"), Ref("global_y")>>)>>,
     <<"procs_node", Expr("PROCS", NoneV, <<>>)>>,
     <<"funcs_node", Expr("FUNCS", NoneV, <<>>)>>,
     <<"main_vars", Expr("VARIABLES", NoneV, <<Expr("VarDeclNode", "result", <<>>),
          Expr("VarDeclNode", "temp", <<>>)>>)>>,
     <<"num1", Expr("NUMBER", "10", <<>>)>>,
     <<"num2", Expr("NUMBER", "5", <<>>)>>,
     <<"plus_op", Expr("BINOP", NoneV, <<Ref("num1"), GenOp("plus"), Ref("num2")>>)>>,
     <<"result_var", Expr("VAR", "result", <<>>)>>,
     <<"assign1", Expr("ASSIGN", NoneV, <<Ref("result_var"), Ref("plus_op")>>)>>,
     <<"print_str", Expr("PRINT", NoneV, <<Expr("STRING", "Result is: ", <<>>)>>)>>,
     <<"print_result", Expr("PRINT", NoneV, <<Expr("VAR", "result", <<>>)>>)>>,
     <<"mult_op", Expr("BINOP", NoneV, <<Expr("VAR", "result", <<>>), GenOp("mult"),
          Expr("NUMBER", "2", <<>>)>>)>>,
     <<"temp_var", Expr("VAR", "temp", <<>>)>>,
     <<"assign2", Expr("ASSIGN", NoneV, <<Ref("temp_var"), Ref("mult_op")>>)>>,
     <<"print_temp", Expr("PRINT", NoneV, <<Expr("VAR", "temp", <<>>)>>)>>,
     <<"halt_instr", Expr("HALT", NoneV, <<>>)>>,
     <<"algo_node", Expr("ALGO", NoneV, <<Ref("assign1"), Ref("print_str"),
          Ref("print_result"), Ref("assign2"), Ref("print_temp"), Ref("halt_instr")>>)>>,
     <<"main_node", Expr("MAIN", NoneV, <<Ref("main_vars"), Ref("algo_node")>>)>>,
     <<"program", Expr("ProgramNode", NoneV, <<Ref("globals_node"), Ref("procs_node"),
          Ref("funcs_node"), Ref("main_node")>>)>>>>,
    <<>>, nid)

build_conditional_test_ast(nid) ==
  Statements(
    <<<<"globals_node", Expr("GLOBALS", NoneV, <<Expr("VarDeclNode", "globalVar", <<>>)>>)>>,
     <<"procs_node", Expr("PROCS", NoneV, <<>>)>>,
     <<"funcs_node", Expr("FUNCS", NoneV, <<>>)>>,
     <<"main_vars", Expr("VARIABLES", NoneV, <<Expr("VarDeclNode", "x", <<>>),
          Expr("VarDeclNode", "y", <<>>)>>)>>,
     <<"assign_x", Expr("ASSIGN", NoneV, <<Expr("VAR", "x", <<>>), Expr("NUMBER", "15",
          <<>>)>>)>>,
     <<"assign_y", Expr("ASSIGN", NoneV, <<Expr("VAR", "y", <<>>), Expr("NUMBER", "10",
          <<>>)>>)>>,
     <<"condition", Expr("BINOP", NoneV, <<Expr("VAR", "x", <<>>), GenOp("gt"), Expr("VAR",
          "y", <<>>)>>)>>,
     <<"then_algo", Expr("ALGO", NoneV, <<Expr("PRINT", NoneV, <<Expr("STRING", "x is larger",
          <<>>)>>)>>)>>,
     <<"else_algo", Expr("ALGO", NoneV, <<Expr("PRINT", NoneV, <<Expr("STRING", "y is larger",
          <<>>)>>)>>)>>,
     <<"if_node", Expr("IF", NoneV, <<Ref("condition"), Ref("then_algo"), Ref("else_algo")>>)>>,
     <<"branch_node", Expr("BRANCH", NoneV, <<Ref("if_node")>>)>>,
     <<"halt_instr", Expr("HALT", NoneV, <<>>)>>,
     <<"algo_node", Expr("ALGO", NoneV, <<Ref("assign_x"), Ref("assign_y"), Ref("branch_node"),
          Ref("halt_instr")>>)>>,
     <<"main_node", Expr("MAIN", NoneV, <<Ref("main_vars"), Ref("algo_node")>>)>>,
     <<"program", Expr("ProgramNode", NoneV, <<Ref("globals_node"), Ref("procs_node"),
          Ref("funcs_node"), Ref("main_node")>>)>>>>,
    <<>>, nid)

build_loop_test_ast(nid) ==
  Statements(
    <<<<"globals_node", Expr("GLOBALS", NoneV, <<>>)>>,
     <<"procs_node", Expr("PROCS", NoneV, <<>>)>>,
     <<"funcs_node", Expr("FUNCS", NoneV, <<>>)>>,
     <<"main_vars", Expr("VARIABLES", NoneV, <<Expr("VarDeclNode", "counter", <<>>),
          Expr("VarDeclNode", "limit", <<>>)>>)>>,
     <<"init_counter", Expr("ASSIGN", NoneV, <<Expr("VAR", "counter", <<>>), Expr("NUMBER",
          "1", <<>>)>>)>>,
     <<"init_limit", Expr("ASSIGN", NoneV, <<Expr("VAR", "limit", <<>>), Expr("NUMBER", "5",
          <<>>)>>)>>,
     <<"while_condition", Expr("BINOP", NoneV, <<Expr("VAR", "counter", <<>>), GenOp("eq"),
          Expr("VAR", "limit", <<>>)>>)>>,
     <<"print_counter", Expr("PRINT", NoneV, <<Expr("VAR", "counter", <<>>)>>)>>,
     <<"increment", Expr("BINOP", NoneV, <<Expr("VAR", "counter", <<>>), GenOp("plus"),
          Expr("NUMBER", "1", <<>>)>>)>>,
     <<"update_counter", Expr("ASSIGN", NoneV, <<Expr("VAR", "counter", <<>>),
          Ref("increment")>>)>>,
     <<"loop_body", Expr("ALGO", NoneV, <<Ref("print_counter"), Ref("update_counter")>>)>>,
     <<"while_node", Expr("WHILE", NoneV, <<Ref("while_condition"), Ref("loop_body")>>)>>,
     <<"loop_node", Expr("LOOP", NoneV, <<Ref("while_node")>>)>>,
     <<"halt_instr", Expr("HALT", NoneV, <<>>)>>,
     <<"algo_node", Expr("ALGO", NoneV, <<Ref("init_counter"), Ref("init_limit"),
          Ref("loop_node"), Ref("halt_instr")>>)>>,
     <<"main_node", Expr("MAIN", NoneV, <<Ref("main_vars"), Ref("algo_node")>>)>>,
     <<"program", Expr("ProgramNode", NoneV, <<Ref("globals_node"), Ref("procs_node"),
          Ref("funcs_node"), Ref("main_node")>>)>>>>,
    <<>>, nid)

\* The tables of the tests: scope 1 is the root, the child scopes follow in
\* the order they are created; every add names its node id.
build_symbol_table_for_simple_test(sid) ==
  LET root == SymbolTable("everywhere", sid)
      global_scope == create_child_scope(root, 1, "global")
      g1 == add(global_scope, 2, "x", "var", 1).tab
      g2 == add(g1, 2, "y", "var", 2).tab
      main_scope == create_child_scope(g2, 1, "main")
      m1 == add(main_scope, 3, "result", "var", 3).tab
  IN  add(m1, 3, "temp", "var", 4).tab

build_symbol_table_for_conditional_test(sid) ==
  LET root == SymbolTable("everywhere", sid)
      global_scope == create_child_scope(root, 1, "global")
      g1 == add(global_scope, 2, "globalVar", "var", 1).tab
      main_scope == create_child_scope(g1, 1, "main")
      m1 == add(main_scope, 3, "x", "var", 2).tab
  IN  add(m1, 3, "y", "var", 3).tab

build_symbol_table_for_loop_test(sid) ==
  LET root == SymbolTable("everywhere", sid)
      main_scope == create_child_scope(root, 1, "main")
      m1 == add(main_scope, 2, "counter", "var", 1).tab
  IN  add(m1, 2, "limit", "var", 2).tab

\* The table of the same kind for the programs of GenProgram: x and y
\* global, y in main.
GenTable(sid) ==
  LET root == SymbolTable("everywhere", sid)
      global_scope == create_child_scope(root, 1, "global")
      g1 == add(global_scope, 2, "x", "var", 1).tab
      g2 == add(g1, 2, "y", "var", 2).tab
      main_scope == create_child_scope(g2, 1, "main")
  IN  add(main_scope, 3, "y", "var", 3).tab

InitGen == InitAll(<<>>, "gen", LexerRun(<<>>))

GenFrame ==
  UNCHANGED <<source, tokens, accepted, report, label_map, basic_file, cfg, reductions, lexer,
              call, previous, checker>>

\* ast = build_..._test_ast(); symtab = build_symbol_table_for_..._test():
\* the tree, the counter after it, the table; the test's output file is not
\* written yet.
TestBuilt(r, tab) ==
  /\ ast' = r.node
  /\ ast_counter' = r.nid
  /\ symbol_table' = tab
  /\ intermediate_file' = NoFile
  /\ pc' = "gen_built"
  /\ GenFrame

\* A tree of the programs above in place of the first test's.
GenBuild ==
  /\ pc = "gen"
  /\ \E e \in GenPrograms(MaxGenNesting) :
       TestBuilt(Construct(e, ast_counter), GenTable(symbol_table.sid))

\* main of test_code_generator.py runs the three tests one after the other
\* in one process.
TestRan(r) == pc = "gen_done" /\ ast = r.node /\ ast_counter = r.nid

SimpleTest ==
  /\ pc = "gen"
  /\ TestBuilt(build_simple_test_ast(ast_counter),
               build_symbol_table_for_simple_test(symbol_table.sid))

ConditionalTest ==
  /\ TestRan(build_simple_test_ast(0))
  /\ TestBuilt(build_conditional_test_ast(ast_counter),
               build_symbol_table_for_conditional_test(symbol_table.sid))

LoopTest ==
  /\ TestRan(build_conditional_test_ast(build_simple_test_ast(0).nid))
  /\ TestBuilt(build_loop_test_ast(ast_counter),
               build_symbol_table_for_loop_test(symbol_table.sid))

\* run_test: generate_code_from_ast(ast, symbol_table, output_file).
run_test ==
  /\ pc = "gen_built"
  /\ intermediate_file' = generate_code_from_ast(ast, symbol_table)
  /\ pc' = "gen_done"
  /\ UNCHANGED <<ast, ast_counter, symbol_table>>
  /\ GenFrame

NextGen == GenBuild \/ SimpleTest \/ ConditionalTest \/ LoopTest \/ run_test

\* The pipeline's trees and the hand-built ones.
InitTemplates == Init \/ InitGen

NextTemplates == Next \/ NextGen

SpecTemplates == InitTemplates /\ [][NextTemplates]_vars

\* The number of labels a construct and the constructs nested in it take.
RECURSIVE LabelsIn(_), LabelsInAll(_)
LabelsIn(instr) ==
  CASE instr.type = "BRANCH" ->
         2 + LabelsInAll(SubSeq(instr.children[1].children, 2, Len(instr.children[1].children)))
    [] instr.type = "LOOP" /\ instr.children[1].type = "WHILE" ->
         3 + LabelsIn(instr.children[1].children[2])
    [] instr.type = "LOOP" /\ instr.children[1].type = "DO" ->
         2 + LabelsIn(instr.children[1].children[1])
    [] instr.type = "ALGO" -> LabelsInAll(instr.children)
    [] OTHER -> 0

LabelsInAll(nodes) ==
  IF nodes = <<>> THEN 0 ELSE LabelsIn(Head(nodes)) + LabelsInAll(Tail(nodes))

\* The generator with t temporaries handed out.
TempsUsed(t) == [temp_counter |-> t, label_counter |-> 0]

IfLine(c, label) == <<"IF", c.result, "=", "1", "THEN", label>>

\* The lines the templates give for an instruction when t temporaries and l
\* labels were handed out before it: [code, t], t the temporaries after it.
\* The construct takes the labels L(l+1).. first; a nested construct takes
\* the labels after those of everything emitted before it.  The code of a
\* condition and of an instruction that is no construct is the generator's.
RECURSIVE Template(_, _, _, _), TemplateAll(_, _, _, _)
Template(tab, instr, t, l) ==
  CASE instr.type = "BRANCH" /\ Len(instr.children[1].children) = 3 ->
         LET n == instr.children[1]
             c == _translate_term(tab, TempsUsed(t), n.children[1])
             e == Template(tab, n.children[3], c.g.temp_counter, l + 2)
             b == Template(tab, n.children[2], e.t, l + 2 + LabelsIn(n.children[3]))
         IN  [code |-> c.code \o <<IfLine(c, "L" \o ToString(l + 1))>> \o e.code
                         \o << <<"GOTO", "L" \o ToString(l + 2)>>,
                               <<"REM", "L" \o ToString(l + 1)>> >>
                         \o b.code \o << <<"REM", "L" \o ToString(l + 2)>> >>,
              t |-> b.t]
    [] instr.type = "BRANCH" /\ Len(instr.children[1].children) = 2 ->
         LET n == instr.children[1]
             c == _translate_term(tab, TempsUsed(t), n.children[1])
             b == Template(tab, n.children[2], c.g.temp_counter, l + 2)
         IN  [code |-> c.code \o << IfLine(c, "L" \o ToString(l + 1)),
                                    <<"GOTO", "L" \o ToString(l + 2)>>,
                                    <<"REM", "L" \o ToString(l + 1)>> >>
                         \o b.code \o << <<"REM", "L" \o ToString(l + 2)>> >>,
              t |-> b.t]
    [] instr.type = "LOOP" /\ instr.children[1].type = "WHILE" ->
         LET n == instr.children[1]
             c == _translate_term(tab, TempsUsed(t), n.children[1])
             b == Template(tab, n.children[2], c.g.temp_counter, l + 3)
         IN  [code |-> << <<"REM", "L" \o ToString(l + 1)>> >> \o c.code
                         \o << IfLine(c, "L" \o ToString(l + 2)),
                               <<"GOTO", "L" \o ToString(l + 3)>>,
                               <<"REM", "L" \o ToString(l + 2)>> >>
                         \o b.code
                         \o << <<"GOTO", "L" \o ToString(l + 1)>>,
                               <<"REM", "L" \o ToString(l + 3)>> >>,
              t |-> b.t]
    [] instr.type = "LOOP" /\ instr.children[1].type = "DO" ->
         LET n == instr.children[1]
             b == Template(tab, n.children[1], t, l + 2)
             c == _translate_term(tab, TempsUsed(b.t), n.children[2])
         IN  [code |-> << <<"REM", "L" \o ToString(l + 1)>> >> \o b.code \o c.code
                         \o << IfLine(c, "L" \o ToString(l + 2)),
                               <<"GOTO", "L" \o ToString(l + 1)>>,
                               <<"REM", "L" \o ToString(l + 2)>> >>,
              t |-> c.g.temp_counter]
    [] instr.type = "ALGO" -> TemplateAll(tab, instr.children, t, l)
    [] OTHER ->
         LET r == _translate_instr(tab, TempsUsed(t), instr)
         IN  [code |-> r.code, t |-> r.g.temp_counter]

TemplateAll(tab, instrs, t, l) ==
  IF instrs = <<>> THEN [code |-> <<>>, t |-> t]
  ELSE LET h == Template(tab, Head(instrs), t, l)
           r == TemplateAll(tab, Tail(instrs), h.t, l + LabelsIn(Head(instrs)))
       IN  [code |-> h.code \o r.code, t |-> r.t]

\* C23: the IR written for a program with MAIN as its 4th child is its main ALGO laid out by the
\* templates: if-else as cond, IF c = 1 THEN Lt, else body, GOTO Lx, REM Lt,
\* then body, REM Lx; if as cond, IF, GOTO Lx, REM Lt, then body, REM Lx;
\* while as REM Ls, cond, IF c = 1 THEN Lb, GOTO Lx, REM Lb, body, GOTO Ls,
\* REM Lx; do-until as REM Ls, body, cond, IF c = 1 THEN Lx, GOTO Ls, REM Lx;
\* with each construct's labels numbered before those of the constructs
\* nested in it.
C23_Templates ==
  intermediate_file.written /\ Len(ast.children) >= 4 /\ ast.children[4].type = "MAIN" =>
    intermediate_file.lines = Template(symbol_table, ast.children[4].children[2], 0, 0).code

\* C23 witness: the IR of a hand-built while with a construct nested in its
\* body, both with condition code: the nested construct's label L4 is
\* defined before the while's exit label L3.
C23_NestedConstructs ==
  /\ pc = "gen_done"
  /\ \E k \in DOMAIN intermediate_file.lines : intermediate_file.lines[k][1] = "t2"
  /\ \E i, j \in DOMAIN intermediate_file.lines :
       /\ i < j
       /\ intermediate_file.lines[i] = <<"REM", "L4">>
       /\ intermediate_file.lines[j] = <<"REM", "L3">>
  /\ intermediate_file.lines[1] = <<"REM", "L1">>
  /\ LabelsIn(ast.children[4].children[2]) >= 5

\* The instructions of an ALGO checked under the context ctx, each with the
\* name of the scope pushed for the ALGO's body and the height the stack has
\* while the body is checked; nested bodies one higher.
RECURSIVE ScopeSites(_, _, _, _)
ScopeSites(algo, ctx, kind, depth) ==
  UNION {{[algo |-> ctx, instr |-> k - 1, kind |-> kind, depth |-> depth]}
           \cup (LET n == algo.children[k]
                     c == ctx \o "/instr[" \o ToString(k - 1) \o "]"
                 IN  CASE n.type = "IF" ->
                            ScopeSites(n.children[2], c \o "/then", "then", depth + 1)
                              \cup (IF Len(n.children) > 2
                                    THEN ScopeSites(n.children[3], c \o "/else", "else", depth + 1)
                                    ELSE {})
                       [] n.type = "WHILE" ->
                            ScopeSites(n.children[2], c \o "/while-body", "while", depth + 1)
                       [] n.type = "DO_UNTIL" ->
                            ScopeSites(n.children[1], c \o "/do-body", "do", depth + 1)
                       [] OTHER -> {}) :
         k \in DOMAIN algo.children}

WellFormedBody(body) == body.type = "BODY" /\ Len(body.children) >= 2

\* The sites of a definition list: the bodies of the well-formed PROC or
\* FUNC nodes, above the scopes root, global, "proc p" or "func f", body.
DefSites(defs, type, ctx) ==
  UNION {IF defs[i].type = type /\ defs[i].children # <<>>
            /\ WellFormedBody(IF type = "FUNC" THEN FuncBody(defs[i])
                               ELSE defs[i].children[Len(defs[i].children)])
         THEN ScopeSites((IF type = "FUNC" THEN FuncBody(defs[i])
                          ELSE defs[i].children[Len(defs[i].children)]).children[2],
                         ctx \o "[" \o ToString(i - 1) \o "]/body/algo", "body", 4)
         ELSE {} :
         i \in DOMAIN defs}

ProgramSites(program) ==
  IF program.type # "PROGRAM" \/ Len(program.children) # 4 THEN {}
  ELSE DefSites(program.children[2].children, "PROC", "proc")
         \cup DefSites(program.children[3].children, "FUNC", "func")
         \cup (IF program.children[4].type = "MAIN" /\ Len(program.children[4].children) >= 2
               THEN ScopeSites(program.children[4].children[2], "main/algo", "main", 3)
               ELSE {})

\* The number of scopes from s up to the root.
RECURSIVE ScopeHeight(_, _)
ScopeHeight(tab, s) == IF tab.scopes[s].parent = 0 THEN 1 ELSE 1 + ScopeHeight(tab, tab.scopes[s].parent)

\* C24: when check_program has returned, on the normal path and after a
\* malformed PROGRAM, MAIN, BODY, PROC or FUNC, the scope stack holds the
\* root scope only and was never empty; every instruction of the program
\* was checked once, with a scope on top of the stack that has the name of
\* its body (then, else, while, do; body and main for the outermost ones),
\* that lies as deep in the scope tree as the body is nested, and that is
\* the top for the instructions of that body and of no other body.
C24_ScopeStack ==
  pc = "hand_checked" =>
    /\ checker.stack = <<1>>
    /\ checker.low >= 1
    /\ Len(checker.visits) = Cardinality(ProgramSites(ast))
    /\ \A i \in DOMAIN checker.visits :
         LET v == checker.visits[i]
         IN  /\ [algo |-> v.algo, instr |-> v.instr,
                  kind |-> symbol_table.scopes[v.scope].scope_name, depth |-> v.depth]
                   \in ProgramSites(ast)
             /\ ScopeHeight(symbol_table, v.scope) = v.depth
             /\ \A j \in DOMAIN checker.visits :
                  (checker.visits[j].algo = v.algo) <=> (checker.visits[j].scope = v.scope)

\* C24 witness: a checked program with a PROC without children, a FUNC whose
\* BODY is malformed and a main whose if has an else part with a while in it.
C24_EarlyReturnsAndBodies ==
  /\ pc = "hand_checked"
  /\ \E i, j \in DOMAIN report :
       /\ report[i] = "proc[0]: malformed PROC (missing children)"
       /\ report[j] = "func[0]/body: malformed BODY"
  /\ \E i \in DOMAIN checker.visits :
       /\ checker.visits[i].algo = "main/algo/instr[0]/else/instr[1]/while-body"
       /\ checker.visits[i].depth = 5
  /\ checker.stack = <<1>>

(***************************************************************************)
(* The table after type checking, against the table build_symbol_table     *)
(* made from the same tree.                                                *)
(***************************************************************************)
\* The scopes build_symbol_table makes of the tree, whatever the table's id
\* counter stood at.
DeclarationScopes(ast_root) ==
  {build_symbol_table(ast_root, s).tab.scopes : s \in 0..symbol_table.sid}

\* C25: once check_program has run in the pipeline (the run is at code
\* generation or later), the table that was passed to TypeChecker still
\* holds exactly the scopes build_symbol_table gave it: the root with the
\* children "global" and "main", each scope with the symbols it had.
C25_TableUnchanged ==
  pc \in {"generate_code", "convert", "done"} =>
    symbol_table.scopes \in DeclarationScopes(ast)

(***************************************************************************)
(* basic_converter.py run on its own on an intermediate file that was not  *)
(* written by the generator: main() reads the lines and converts them.     *)
(* A line is the list of its whitespace-separated words.  The words are    *)
(* such that "GOTO" in line and "THEN" in line hold exactly when GOTO and  *)
(* THEN are words of the line, and the only words that begin with L are L0 *)
(* and L1.                                                                 *)
(***************************************************************************)
MaxLines == 3

IRLines ==
  {<<"REM", "L0">>, <<"REM", "L1">>, <<"GOTO", "L1">>, <<"IF", "x", "=", "1", "THEN", "L0">>,
   <<"PRINT", "L1">>, <<"L0", "=", "L1">>, <<"STOP">>, <<"REM", "L1", "x">>, <<"REM", "x">>,
   <<"PRINT", "\"GOTO\"">>}

InitResolve == InitAll(<<>>, "read", LexerRun(<<>>))

\* read_intermediate_file: the lines of the file, whatever they are.
read_intermediate_file ==
  /\ pc = "read"
  /\ \E lines \in ListsOver(IRLines, MaxLines) : intermediate_file' = File(lines)
  /\ pc' = "convert"
  /\ UNCHANGED <<source, tokens, accepted, ast, ast_counter, symbol_table, report, label_map,
                 basic_file, cfg, reductions, lexer, call, previous, checker>>

NextResolve == read_intermediate_file \/ ConvertToBasic

SpecResolve == InitResolve /\ [][NextResolve]_vars

\* The line with every word that is a label of the map replaced by the
\* label's number in decimal.
Resolved(line, line_map) ==
  [k \in DOMAIN line |->
     IF \E e \in line_map : e[1] = line[k]
     THEN ToString((CHOOSE e \in line_map : e[1] = line[k])[2])
     ELSE line[k]]

\* C26: in the BASIC file of a converted intermediate file, behind its line
\* number, a label line REM L<k> has the words it had, and every other line
\* has each word that is a label registered in pass 1 replaced by the
\* label's line number, whether or not GOTO or THEN is among its words.
C26_EveryLineResolved ==
  pc = "done" /\ basic_file.written =>
    \A i \in DOMAIN intermediate_file.lines :
      Tail(basic_file.lines[i]) =
        IF IsLabelLine(intermediate_file.lines[i], LabelWords(intermediate_file.lines))
        THEN intermediate_file.lines[i]
        ELSE Resolved(intermediate_file.lines[i], label_map)

(***************************************************************************)
(* The reduce entries of the table, state by state.                        *)
(***************************************************************************)
\* The complete items of state i whose head is not S'.
ReduceItems(i) == {c \in states[i + 1] : is_complete(c) /\ HeadOf(c[1]) # start_symbol}

\* What ACTION[i, a] can end up as, over the orders in which the items of
\* state i can be visited: the shift if there is one, else any candidate.
PossibleActions(i, a) ==
  IF a \in terminals /\ <<i, a>> \in TransitionKeys
  THEN {<<"shift", transitions[<<i, a>>]>>}
  ELSE ReduceCandidates(i, a)

\* C27: in the parser as constructed, no state of the collection holds two
\* distinct complete items with heads other than S' whose FOLLOW sets share
\* a terminal (or $), no ACTION entry has two reduce candidates, and every
\* entry is the same whatever the order the items are visited in; and at
\* every configuration of a parse the action taken is the only possible one.
C27_NoReduceReduce ==
  /\ pc = "parsing" /\ cfg = StartConfig =>
       \A i \in StateIdx :
         /\ \A c, d \in ReduceItems(i) :
              c # d => compute_follow[HeadOf(c[1])] \cap compute_follow[HeadOf(d[1])] = {}
         /\ \A a \in terminals \cup {END} :
              /\ Cardinality(ReduceCandidates(i, a)) <= 1
              /\ Cardinality(PossibleActions(i, a)) <= 1
  /\ pc = "parsing" /\ cfg.result = "run" =>
       PossibleActions(cfg.stack[Len(cfg.stack)], Lookahead(ParserTokens(tokens), cfg.pointer))
         \subseteq {ActionAt(cfg.stack, ParserTokens(tokens), cfg.pointer)}

\* C27 witness: a parse that has reduced and stands in a state whose
\* complete item is the one reduce candidate under the lookahead, a terminal
\* that more than one head has in its FOLLOW set.
C27_ReduceChosen ==
  /\ pc = "parsing" /\ cfg.result = "run" /\ reductions # <<>>
  /\ LET i == cfg.stack[Len(cfg.stack)]
         a == Lookahead(ParserTokens(tokens), cfg.pointer)
     IN /\ Cardinality(ReduceItems(i)) = 1
        /\ Cardinality(ReduceCandidates(i, a)) = 1
        /\ Cardinality({B \in nonterminals : a \in compute_follow[B]}) > 1
        /\ ActionAt(cfg.stack, ParserTokens(tokens), cfg.pointer)[1] = "reduce"

(***************************************************************************)
(* The parse loop: the stack and the number of steps.                      *)
(***************************************************************************)
\* The reduce about to be taken leaves state 0 on the stack and finds its
\* GOTO entry.
ReduceDefined(stack, p) ==
  /\ Len(BodyOf(p)) <= Len(stack) - 1
  /\ Popped(stack, p) # <<>>
  /\ <<Popped(stack, p)[Len(Popped(stack, p))], HeadOf(p)>> \in GotoKeys

\* C28: at every iteration of the parse loop the stack is non-empty with
\* state 0 at the bottom; a reduce by A -> beta pops no more entries than lie
\* above state 0 and finds GOTO[top, A] defined; the loop ends in error only
\* through a missing ACTION entry; and the loop comes to an end: the shifts
\* taken never outnumber the tokens, and the reduces taken never outnumber
\* twice the tokens consumed plus two.
C28_ParseLoop ==
  pc = "parsing" =>
    /\ cfg.stack # <<>> /\ cfg.stack[1] = 0
    /\ cfg.pointer <= Len(tokens)
    /\ Len(reductions) <= 2 * (cfg.pointer + 1)
    /\ cfg.result = "run" =>
         LET act == ActionAt(cfg.stack, ParserTokens(tokens), cfg.pointer)
         IN  act[1] = "reduce" => ReduceDefined(cfg.stack, act[2])
    /\ cfg.result = "error" =>
         ActionAt(cfg.stack, ParserTokens(tokens), cfg.pointer) = <<"none", 0>>

\* C28 witness: the loop about to reduce by a production whose body is as
\* long as the stack above state 0, after earlier reduces, one of them by a
\* production with an empty body.
C28_ReduceToBottom ==
  /\ pc = "parsing" /\ cfg.result = "run"
  /\ \E k \in DOMAIN reductions : BodyOf(reductions[k]) = <<>>
  /\ LET act == ActionAt(cfg.stack, ParserTokens(tokens), cfg.pointer)
     IN  /\ act[1] = "reduce"
         /\ Len(BodyOf(act[2])) = Len(cfg.stack) - 1
         /\ Len(BodyOf(act[2])) > 1

(***************************************************************************)
(* The return atom of a function against the function's own declarations.  *)
(***************************************************************************)
DeclNames(decls) == {decls[k].value : k \in DOMAIN decls}

\* The parameters: the children before the BODY.
ParamNames(f) ==
  DeclNames(SubSeq(f.children, 1,
                   Len(f.children) - (IF ExplicitAtom(f) = NoNode THEN 1 ELSE 2)))

\* The locals: the declarations of the BODY's LOCALS_BLOCK.
LocalNames(f) == DeclNames(FuncBody(f).children[1].children)

WellFormedProgram(program) == program.type = "PROGRAM" /\ Len(program.children) = 4

WellFormedFunc(f) ==
  /\ f.type = "FUNC" /\ f.children # <<>>
  /\ FuncBody(f).type = "BODY" /\ Len(FuncBody(f).children) = 2

\* C29: when a checked function's explicit return atom is a VAR that names
\* one of the function's parameters or locals, the report holds no
\* "undeclared variable" error for that atom, and, the function being the
\* only one and without a RETURN instruction, no "function return atom must
\* be numeric" error.
C29_ReturnVarResolved ==
  pc = "hand_checked" /\ WellFormedProgram(ast) =>
    \A i \in DOMAIN FuncsOf(ast) :
      LET f == FuncsOf(ast)[i]
      IN  (/\ WellFormedFunc(f)
           /\ ExplicitAtom(f).type = "VAR"
           /\ ExplicitAtom(f).value \in ParamNames(f) \cup LocalNames(f)) =>
            /\ ~Reported(report, "VAR(" \o IdText(ExplicitAtom(f)) \o "): undeclared variable '"
                                   \o ExplicitAtom(f).value \o "'")
            /\ (Len(FuncsOf(ast)) = 1 /\ TrailingReturn(f) = NoNode) =>
                 ~Reported(report, "func: function return atom must be numeric")

(***************************************************************************)
(* The node id a symbol is stored with.  call.node_id is the argument of   *)
(* the last add (-1 for None) and call.sid the table's counter before it.  *)
(***************************************************************************)
\* The ids of declaring nodes: the first node made in a process has id 0.
DeclaredIds == {0, 1, 7}

IdNames == ScopeVarNames \cup {"z"}

\* scope.add(name, "var", node_id=node.id), as build_symbol_table calls it,
\* on the root scope: it returns, or raises the name-rule violation.
AddDeclared ==
  /\ pc = "scopes"
  /\ \E name \in IdNames, id \in DeclaredIds :
       AddCall(1, name, id, Declared(symbol_table, 1, name),
               add(symbol_table, 1, name, "var", id))

NextIds == Add \/ AddRaises \/ AddDeclared

SpecIds == InitScopes /\ [][NextIds]_vars

\* C30: after add(name, "var", node_id=k) with an integer k >= 0 has
\* returned, the symbol stored for the name has node_id k and the table's
\* counter stands where it stood; the counter gives the id, and advances,
\* only when no node_id was passed.
C30_ExplicitIdStored ==
  call.op = "add" /\ ~call.raised =>
    LET stored == symbol_table.scopes[call.scope].symbols[Len(call.before) + 1]
    IN  /\ call.node_id >= 0 => stored.node_id = call.node_id /\ symbol_table.sid = call.sid
        /\ call.node_id = -1 => stored.node_id = call.sid /\ symbol_table.sid = call.sid + 1

====
